---- MODULE Spec2Model ----
(***************************************************************************)
(* grafana-autodoc: the batch processor (cmd/main.go, processFiles), the   *)
(* helpers of pkg/utils and the per-file task of pkg/parser                *)
(* (CreateDocumentationFromFile), as a state machine.                      *)
(*                                                                         *)
(* Strings are sequences of one-character strings, so that the string     *)
(* functions the code calls (ContainsAny, ToLower, Ext, Base, TrimSuffix,  *)
(* Join, Glob's matcher) are computed character by character.             *)
(***************************************************************************)
EXTENDS Integers, Sequences, FiniteSets, TLC

(***************************************************************************)
(* Characters and strings                                                  *)
(***************************************************************************)

\* The characters of the model's paths, in ASCII order.
Ascii ==
    << "*", "-", ".", "/", "?",
       "A", "B", "C", "D", "E", "F", "G", "H", "I", "J", "K", "L", "M",
       "N", "O", "P", "Q", "R", "S", "T", "U", "V", "W", "X", "Y", "Z",
       "[", "]", "^",
       "a", "b", "c", "d", "e", "f", "g", "h", "i", "j", "k", "l", "m",
       "n", "o", "p", "q", "r", "s", "t", "u", "v", "w", "x", "y", "z",
       "{", "}" >>

Upper == << "A", "B", "C", "D", "E", "F", "G", "H", "I", "J", "K", "L", "M",
            "N", "O", "P", "Q", "R", "S", "T", "U", "V", "W", "X", "Y", "Z" >>

Lower == << "a", "b", "c", "d", "e", "f", "g", "h", "i", "j", "k", "l", "m",
            "n", "o", "p", "q", "r", "s", "t", "u", "v", "w", "x", "y", "z" >>

AsciiSet == { Ascii[i] : i \in 1..Len(Ascii) }

\* Byte value order of every character (its position in Ascii).
CharCodes == [c \in AsciiSet |-> CHOOSE i \in 1..Len(Ascii) : Ascii[i] = c]

CharCode(c) == CharCodes[c]

\* Go's string comparison: lexicographic by bytes.
RECURSIVE StrLess(_, _)
StrLess(s, t) ==
    IF t = <<>> THEN FALSE
    ELSE IF s = <<>> THEN TRUE
    ELSE IF s[1] = t[1] THEN StrLess(Tail(s), Tail(t))
    ELSE CharCode(s[1]) < CharCode(t[1])

\* sort.Strings over a set of distinct strings.
RECURSIVE SortStrings(_)
SortStrings(S) ==
    IF S = {} THEN <<>>
    ELSE LET m == CHOOSE x \in S : \A y \in S \ {x} : StrLess(x, y)
         IN  <<m>> \o SortStrings(S \ {m})

\* The lower case of every character.
LowerChars ==
    [c \in AsciiSet |->
        IF \E i \in 1..Len(Upper) : Upper[i] = c
        THEN Lower[CHOOSE i \in 1..Len(Upper) : Upper[i] = c]
        ELSE c]

\* strings.ToLower, one character.
LowerChar(c) == LowerChars[c]

\* strings.ToLower
ToLower(s) == [i \in 1..Len(s) |-> LowerChar(s[i])]

\* strings.ContainsAny(s, chars)
ContainsAny(s, chars) == \E i \in 1..Len(s) : s[i] \in chars

\* strings.HasSuffix
HasSuffix(s, suf) ==
    /\ Len(s) >= Len(suf)
    /\ SubSeq(s, Len(s) - Len(suf) + 1, Len(s)) = suf

\* strings.TrimSuffix
TrimSuffix(s, suf) ==
    IF HasSuffix(s, suf) THEN SubSeq(s, 1, Len(s) - Len(suf)) ELSE s

\* Index of the last "/" of s, 0 when there is none.
LastSlash(s) ==
    IF \E i \in 1..Len(s) : s[i] = "/"
    THEN CHOOSE i \in 1..Len(s) :
            s[i] = "/" /\ \A j \in (i+1)..Len(s) : s[j] # "/"
    ELSE 0

\* filepath.Base for a clean, non-empty path: its last element.
Base(path) == SubSeq(path, LastSlash(path) + 1, Len(path))

\* filepath.Ext: the suffix beginning at the final dot of the last element.
Ext(path) ==
    LET b == LastSlash(path)
    IN  IF \E i \in (b+1)..Len(path) : path[i] = "."
        THEN LET d == CHOOSE i \in (b+1)..Len(path) :
                          path[i] = "." /\ \A j \in (i+1)..Len(path) : path[j] # "."
             IN  SubSeq(path, d, Len(path))
        ELSE <<>>

\* filepath.Join of two clean elements; "." and "" name the working directory.
Join(dir, name) ==
    IF dir = <<>> \/ dir = <<".">> THEN name ELSE dir \o <<"/">> \o name

DotJson == << ".", "j", "s", "o", "n" >>
DotMd == << ".", "m", "d" >>

(***************************************************************************)
(* The file system: a set of entries [path, isDir, readable, content].     *)
(* Paths are relative to the working directory, which always exists.       *)
(***************************************************************************)

Cwd == << "." >>

\* os.Stat succeeds on path.
Exists(fsys, path) == path = Cwd \/ \E e \in fsys : e.path = path

Entry(fsys, path) == CHOOSE e \in fsys : e.path = path

\* FileInfo.IsDir of an existing path.
IsDir(fsys, path) == path = Cwd \/ Entry(fsys, path).isDir

\* The path can be opened for reading (permission bits).
Readable(fsys, path) == path = Cwd \/ Entry(fsys, path).readable

\* The names of the immediate entries of directory dir.
Names(fsys, dir) ==
    IF dir = Cwd
    THEN { e.path : e \in { x \in fsys : LastSlash(x.path) = 0 } }
    ELSE { Base(e.path) :
             e \in { x \in fsys :
                       /\ LastSlash(x.path) = Len(dir) + 1
                       /\ SubSeq(x.path, 1, Len(dir)) = dir } }

\* os.ReadDir: the entry names of a readable directory, sorted by filename.
ReadDirOK(fsys, dir) ==
    Exists(fsys, dir) /\ IsDir(fsys, dir) /\ Readable(fsys, dir)

ReadDir(fsys, dir) == SortStrings(Names(fsys, dir))

(***************************************************************************)
(* filepath.Match and filepath.Glob (Go standard library), restricted to   *)
(* patterns without backslash escapes.                                     *)
(***************************************************************************)

\* The characters from lo to hi in byte order.
CharRange(lo, hi) ==
    { Ascii[k] : k \in { n \in 1..Len(Ascii) :
                           CharCode(lo) <= n /\ n <= CharCode(hi) } }

\* The character class whose first range starts at p[i] (after "[" and an
\* optional "^"); n counts the ranges read so far. ok is FALSE for a malformed
\* class (ErrBadPattern); next is the index after the closing "]".
RECURSIVE ClassItems(_, _, _, _)
ClassItems(p, i, n, acc) ==
    IF i > Len(p) THEN [ok |-> FALSE, next |-> i, set |-> acc]
    ELSE IF p[i] = "]" /\ n > 0 THEN [ok |-> TRUE, next |-> i + 1, set |-> acc]
    ELSE IF p[i] \in {"-", "]"} \/ i = Len(p)
         THEN [ok |-> FALSE, next |-> i, set |-> acc]
    ELSE IF p[i+1] = "-"
         THEN IF i + 2 >= Len(p) \/ p[i+2] \in {"-", "]"}
              THEN [ok |-> FALSE, next |-> i, set |-> acc]
              ELSE ClassItems(p, i + 3, n + 1, acc \cup CharRange(p[i], p[i+2]))
    ELSE ClassItems(p, i + 1, n + 1, acc \cup {p[i]})

\* The class opened by the "[" at p[i].
Class(p, i) ==
    LET neg == i + 1 <= Len(p) /\ p[i+1] = "^"
        c   == ClassItems(p, IF neg THEN i + 2 ELSE i + 1, 0, {})
    IN  [ok |-> c.ok, next |-> c.next, set |-> c.set, neg |-> neg]

\* The pattern is malformed from index i on (filepath.ErrBadPattern).
RECURSIVE BadFrom(_, _)
BadFrom(p, i) ==
    IF i > Len(p) THEN FALSE
    ELSE IF p[i] = "[" THEN ~Class(p, i).ok \/ BadFrom(p, Class(p, i).next)
    ELSE BadFrom(p, i + 1)

BadPattern(p) == BadFrom(p, 1)

\* filepath.Match of a well-formed pattern from p[i] against s from s[j].
RECURSIVE MatchFrom(_, _, _, _)
MatchFrom(p, i, s, j) ==
    IF i > Len(p) THEN j > Len(s)
    ELSE IF p[i] = "*"
         THEN \/ MatchFrom(p, i + 1, s, j)
              \/ j <= Len(s) /\ s[j] # "/" /\ MatchFrom(p, i, s, j + 1)
    ELSE IF p[i] = "?"
         THEN j <= Len(s) /\ s[j] # "/" /\ MatchFrom(p, i + 1, s, j + 1)
    ELSE IF p[i] = "["
         THEN /\ j <= Len(s)
              /\ (s[j] \in Class(p, i).set) # Class(p, i).neg
              /\ MatchFrom(p, Class(p, i).next, s, j + 1)
    ELSE j <= Len(s) /\ s[j] = p[i] /\ MatchFrom(p, i + 1, s, j + 1)

Match(p, s) == MatchFrom(p, 1, s, 1)

\* filepath's hasMeta: the characters Glob treats as magic.
HasMeta(p) == ContainsAny(p, {"*", "?", "["})

\* filepath.Split followed by cleanGlobPath: the directory part of a pattern.
GlobDir(p) ==
    IF LastSlash(p) = 0 THEN Cwd ELSE SubSeq(p, 1, LastSlash(p) - 1)

\* Concatenation of a sequence of sequences.
RECURSIVE Flatten(_)
Flatten(ss) == IF ss = <<>> THEN <<>> ELSE Head(ss) \o Flatten(Tail(ss))

\* Entries of sequence s that satisfy Test, in order.
SelectNames(names, p) == SelectSeq(names, LAMBDA n : Match(p, n))

\* filepath's glob(dir, pattern): the entries of dir matching pattern, sorted;
\* nothing when dir is not a directory or cannot be read.
GlobInDir(fsys, dir, file) ==
    IF ReadDirOK(fsys, dir)
    THEN LET hit == SelectNames(ReadDir(fsys, dir), file)
         IN  [k \in 1..Len(hit) |-> Join(dir, hit[k])]
    ELSE <<>>

\* filepath.Glob of a well-formed pattern.
RECURSIVE GlobMatches(_, _)
GlobMatches(fsys, p) ==
    IF ~HasMeta(p) THEN (IF Exists(fsys, p) THEN <<p>> ELSE <<>>)
    ELSE LET dir  == GlobDir(p)
             file == Base(p)
             dirs == IF HasMeta(dir) THEN GlobMatches(fsys, dir) ELSE <<dir>>
         IN  Flatten([k \in 1..Len(dirs) |-> GlobInDir(fsys, dirs[k], file)])

\* filepath.Glob: [err, matches].
Glob(fsys, p) ==
    IF BadPattern(p) THEN [err |-> TRUE, matches |-> <<>>]
    ELSE [err |-> FALSE, matches |-> GlobMatches(fsys, p)]

(***************************************************************************)
(* Dashboards (pkg/parser/types.go) and the documents of the model.        *)
(***************************************************************************)

\* A Target with the given expression text.
Tgt(expr) == [expr |-> expr]

\* A Panel.
Pnl(title, description, type, targets) ==
    [title |-> title, description |-> description, type |-> type,
     targets |-> targets]

\* A RowPanel: a panel that may hold nested panels.
Row(title, description, type, targets, panels) ==
    [title |-> title, description |-> description, type |-> type,
     targets |-> targets, panels |-> panels]

\* RowPanel.GetPanel: the row's own fields as a Panel, its panels dropped.
GetPanel(r) ==
    [title |-> r.title, description |-> r.description, type |-> r.type,
     targets |-> r.targets]

\* Fault variant of GetPanels: one loop that appends, row by row, the nested
\* panels of the row and then the row converted by GetPanel.
GetPanelsRowByRow(d) ==
    Flatten([k \in 1..Len(d.panels) |->
               d.panels[k].panels \o << GetPanel(d.panels[k]) >>])

\* Dashboard.GetPanels: first loop, the nested panels of every row; second
\* loop, every row converted by GetPanel.
GetPanels(d) ==
    Flatten([k \in 1..Len(d.panels) |-> d.panels[k].panels])
      \o [k \in 1..Len(d.panels) |-> GetPanel(d.panels[k])]

\* Expression texts.
ExprUp == << "u", "p" >>
ExprFooFoo == << "f", "o", "o", " ", "+", " ", "f", "o", "o" >>
ExprRateRange ==
    << "r", "a", "t", "e", "(", "f", "o", "o", "[",
       "$", "_", "_", "r", "a", "n", "g", "e", "]", ")" >>
ExprRate1m ==
    << "r", "a", "t", "e", "(", "f", "o", "o", "[", "1", "m", "]", ")" >>
ExprBar == << "b", "a", "r" >>
ExprBad == << "s", "u", "m", "(" >>

\* The placeholder tokens and their replacement (old, new pairs in the
\* argument order of strings.NewReplacer).
Placeholders ==
    << << "$", "_", "_", "r", "a", "n", "g", "e" >>,
       << "$", "_", "_", "r", "a", "t", "e", "_",
          "i", "n", "t", "e", "r", "v", "a", "l" >>,
       << "$", "i", "n", "t", "e", "r", "v", "a", "l" >> >>

OneMinute == << "1", "m" >>

\* old occurs in s at index i.
OccursAt(s, i, old) ==
    /\ i + Len(old) - 1 <= Len(s)
    /\ SubSeq(s, i, i + Len(old) - 1) = old

\* strings.Replacer.Replace: one left-to-right pass without overlapping
\* matches; at each index the first placeholder, in argument order, that
\* occurs there is replaced, and the scan resumes after it.
RECURSIVE ReplaceFrom(_, _)
ReplaceFrom(s, i) ==
    IF i > Len(s) THEN <<>>
    ELSE IF \E k \in 1..Len(Placeholders) : OccursAt(s, i, Placeholders[k])
         THEN LET k == CHOOSE n \in 1..Len(Placeholders) :
                          /\ OccursAt(s, i, Placeholders[n])
                          /\ \A m \in 1..(n-1) : ~OccursAt(s, i, Placeholders[m])
              IN  OneMinute \o ReplaceFrom(s, i + Len(Placeholders[k]))
         ELSE <<s[i]>> \o ReplaceFrom(s, i + 1)

\* Fault variant of Replace: only the first placeholder of the text is
\* replaced.
ReplaceFirstOnly(s) ==
    LET starts == { i \in 1..Len(s) :
                      \E k \in 1..Len(Placeholders) :
                          OccursAt(s, i, Placeholders[k]) }
    IN  IF starts = {} THEN s
        ELSE LET i == CHOOSE n \in starts : \A m \in starts : n <= m
                 k == CHOOSE n \in 1..Len(Placeholders) :
                          /\ OccursAt(s, i, Placeholders[n])
                          /\ \A m \in 1..(n-1) : ~OccursAt(s, i, Placeholders[m])
             IN  SubSeq(s, 1, i - 1) \o OneMinute
                   \o SubSeq(s, i + Len(Placeholders[k]), Len(s))

\* replacer.Replace(target.Expr)
Replace(s) == ReplaceFrom(s, 1)

\* Expression tree nodes of the PromQL parser.
Node(kind, name, kids) == [kind |-> kind, name |-> name, kids |-> kids]
VS(name) == Node("VectorSelector", name, <<>>)

\* promql/parser.ParseExpr on the expression texts of the model: the tree
\* of a well-formed text, an error for any other text.
ParseExpr(text) ==
    IF text = ExprUp THEN [err |-> FALSE, node |-> VS("up")]
    ELSE IF text = ExprBar THEN [err |-> FALSE, node |-> VS("bar")]
    ELSE IF text = ExprFooFoo
         THEN [err |-> FALSE,
               node |-> Node("BinaryExpr", "", << VS("foo"), VS("foo") >>)]
    ELSE IF text = ExprRate1m
         THEN [err |-> FALSE,
               node |-> Node("Call", "rate",
                          << Node("MatrixSelector", "", << VS("foo") >>) >>)]
    ELSE [err |-> TRUE, node |-> Node("", "", <<>>)]

\* Fault variant of extractMetrics: the children of a node are visited from
\* right to left.
RECURSIVE extractMetricsRightToLeft(_)
extractMetricsRightToLeft(node) ==
    (IF node.kind = "VectorSelector" THEN <<node.name>> ELSE <<>>)
      \o Flatten([k \in 1..Len(node.kids) |->
                    extractMetricsRightToLeft(
                        node.kids[Len(node.kids) + 1 - k])])

\* metricNameVisitor.Visit under parser.Walk: the node itself first, then
\* its children from left to right; only a VectorSelector adds its name.
RECURSIVE extractMetrics(_)
extractMetrics(node) ==
    (IF node.kind = "VectorSelector" THEN <<node.name>> ELSE <<>>)
      \o Flatten([k \in 1..Len(node.kids) |-> extractMetrics(node.kids[k])])

\* extractMetricFromExpression: [err, metrics].
extractMetricFromExpression(expr) ==
    LET p == ParseExpr(expr)
    IN  IF p.err THEN [err |-> TRUE, metrics |-> <<>>]
        ELSE [err |-> FALSE, metrics |-> extractMetrics(p.node)]

\* Fault variant of GetUniqueElements: nothing is removed.
KeepAllElements(s) == s

\* Fault variant of GetUniqueElements: of an element that occurs more than
\* once the last occurrence is kept, not the first.
RECURSIVE KeepLastOccurrence(_)
KeepLastOccurrence(s) ==
    IF s = <<>> THEN <<>>
    ELSE LET rest == KeepLastOccurrence(Tail(s))
         IN  IF \E i \in 1..Len(rest) : rest[i] = Head(s)
             THEN rest ELSE << Head(s) >> \o rest

\* Fault variant of GetUniqueElements: the unique elements are returned in
\* the reverse of the order of their first occurrence.
RECURSIVE UniqueReversed(_)
UniqueReversed(s) ==
    IF s = <<>> THEN <<>>
    ELSE LET front == SubSeq(s, 1, Len(s) - 1)
             last == s[Len(s)]
         IN  IF \E i \in 1..Len(front) : front[i] = last
             THEN UniqueReversed(front)
             ELSE << last >> \o UniqueReversed(front)

\* utils.GetUniqueElements: the elements of s in order of first occurrence.
RECURSIVE GetUniqueElements(_)
GetUniqueElements(s) ==
    IF s = <<>> THEN <<>>
    ELSE LET init == GetUniqueElements(SubSeq(s, 1, Len(s) - 1))
             last == s[Len(s)]
         IN  IF \E i \in 1..Len(init) : init[i] = last
             THEN init ELSE Append(init, last)

\* strings.ReplaceAll(description, "\n", "\\n") on a sequence of characters.
RECURSIVE EscapeNewlines(_)
EscapeNewlines(s) ==
    IF s = <<>> THEN <<>>
    ELSE (IF Head(s) = "\n" THEN << "\\", "n" >> ELSE << Head(s) >>)
           \o EscapeNewlines(Tail(s))

\* Fault variant of TargetMetrics: a target that fails to parse does not end
\* the loop; the remaining targets are parsed before the error is returned.
RECURSIVE TargetMetricsParseAll(_, _)
TargetMetricsParseAll(targets, k) ==
    IF k > Len(targets) THEN [err |-> FALSE, metrics |-> <<>>, calls |-> 0]
    ELSE LET m == extractMetricFromExpression(Replace(targets[k].expr))
             rest == TargetMetricsParseAll(targets, k + 1)
         IN  IF m.err \/ rest.err
             THEN [err |-> TRUE, metrics |-> <<>>, calls |-> 1 + rest.calls]
             ELSE [err |-> FALSE, metrics |-> m.metrics \o rest.metrics,
                   calls |-> 1 + rest.calls]

\* The metrics of the targets of one panel from target k on:
\* [err, metrics, calls]; the first target that fails to parse ends the loop
\* with the error. calls counts the calls of extractMetricFromExpression.
RECURSIVE TargetMetrics(_, _)
TargetMetrics(targets, k) ==
    IF k > Len(targets) THEN [err |-> FALSE, metrics |-> <<>>, calls |-> 0]
    ELSE LET m == extractMetricFromExpression(Replace(targets[k].expr))
         IN  IF m.err THEN [err |-> TRUE, metrics |-> <<>>, calls |-> 1]
             ELSE LET rest == TargetMetrics(targets, k + 1)
                  IN  [err |-> rest.err,
                       metrics |-> m.metrics \o rest.metrics,
                       calls |-> 1 + rest.calls]

\* Fault variant of PanelData: panels of type "row" are not skipped.
RECURSIVE PanelDataKeepRows(_, _)
PanelDataKeepRows(panels, k) ==
    IF k > Len(panels) THEN [err |-> FALSE, panels |-> <<>>, calls |-> 0]
    ELSE LET m == TargetMetrics(panels[k].targets, 1)
         IN  IF m.err THEN [err |-> TRUE, panels |-> <<>>, calls |-> m.calls]
             ELSE LET rest == PanelDataKeepRows(panels, k + 1)
                      pd   == [title |-> panels[k].title,
                               description |-> EscapeNewlines(panels[k].description),
                               type |-> panels[k].type,
                               metrics |-> GetUniqueElements(m.metrics)]
                  IN  [err |-> rest.err,
                       panels |-> IF rest.err THEN <<>> ELSE <<pd>> \o rest.panels,
                       calls |-> m.calls + rest.calls]

\* The panel loop of CreateDocumentationFromFile from panel k on:
\* [err, panels, calls]; panels of type "row" are skipped.
RECURSIVE PanelData(_, _)
PanelData(panels, k) ==
    IF k > Len(panels) THEN [err |-> FALSE, panels |-> <<>>, calls |-> 0]
    ELSE IF panels[k].type = "row" THEN PanelData(panels, k + 1)
    ELSE LET m == TargetMetrics(panels[k].targets, 1)
         IN  IF m.err THEN [err |-> TRUE, panels |-> <<>>, calls |-> m.calls]
             ELSE LET rest == PanelData(panels, k + 1)
                      pd   == [title |-> panels[k].title,
                               description |-> EscapeNewlines(panels[k].description),
                               type |-> panels[k].type,
                               metrics |-> GetUniqueElements(m.metrics)]
                  IN  [err |-> rest.err,
                       panels |-> IF rest.err THEN <<>> ELSE <<pd>> \o rest.panels,
                       calls |-> m.calls + rest.calls]

\* MarkdownData of a dashboard: [err, data, calls].
MarkdownData(dash) ==
    LET p == PanelData(GetPanels(dash), 1)
    IN  [err |-> p.err,
         data |-> [title |-> dash.title, description |-> dash.description,
                   panels |-> p.panels],
         calls |-> p.calls]

(***************************************************************************)
(* The documents of the model: file contents are named, and json.Unmarshal *)
(* gives the dashboard a content decodes to, or fails.                     *)
(***************************************************************************)

\* The document of the round trip: one top-level graph panel querying up.
DashRound ==
    [title |-> "T", description |-> "D",
     panels |-> << Row("P1", << "d", "1" >>, "graph", << Tgt(ExprUp) >>, <<>>) >>]

\* A row with two children; the second child uses foo in both its targets.
DashRows ==
    [title |-> "R", description |-> "",
     panels |-> << Row("row1", <<>>, "row", <<>>,
                       << Pnl("c1", << "x", "\n", "y" >>, "stat",
                                << Tgt(ExprBar) >>),
                          Pnl("c2", <<>>, "graph",
                                << Tgt(ExprRateRange), Tgt(ExprFooFoo) >>) >>) >>]

\* A dashboard one of whose targets does not parse.
DashBadQuery ==
    [title |-> "B", description |-> "",
     panels |-> << Row("P1", <<>>, "graph",
                       << Tgt(ExprUp), Tgt(ExprBad) >>, <<>>) >>]

NoDash == [title |-> "", description |-> "", panels |-> <<>>]

\* Fault variant of Unmarshal: a file of zero bytes decodes to the zero
\* dashboard instead of failing.
UnmarshalEmptyAsZero(bs) ==
    IF bs = "round" THEN [err |-> FALSE, dash |-> DashRound]
    ELSE IF bs = "rows" THEN [err |-> FALSE, dash |-> DashRows]
    ELSE IF bs = "badquery" THEN [err |-> FALSE, dash |-> DashBadQuery]
    ELSE IF bs = "empty" THEN [err |-> FALSE, dash |-> NoDash]
    ELSE [err |-> TRUE, dash |-> NoDash]

\* json.Unmarshal(bs, &dash): [err, dash]. "empty" is a file of zero bytes,
\* "schema" a JSON text of the wrong shape, "text" a file that is not JSON.
Unmarshal(bs) ==
    IF bs = "round" THEN [err |-> FALSE, dash |-> DashRound]
    ELSE IF bs = "rows" THEN [err |-> FALSE, dash |-> DashRows]
    ELSE IF bs = "badquery" THEN [err |-> FALSE, dash |-> DashBadQuery]
    ELSE [err |-> TRUE, dash |-> NoDash]

(***************************************************************************)
(* Errors. An error value carries its message, the path its text names     *)
(* (empty when the text names none) and, as its identity, the task that    *)
(* created it (0 for the main goroutine).                                  *)
(***************************************************************************)

Err(msg, path, task) == [msg |-> msg, path |-> path, task |-> task]
Nil == Err("", <<>>, 0)
IsNil(e) == e.msg = ""

\* A returned error value of processFiles: nil, one error, or a
\* *multierror.Error holding a list of errors.
NilResult == [isNil |-> TRUE, errors |-> <<>>]
Single(e) == [isNil |-> FALSE, errors |-> <<e>>]

(***************************************************************************)
(* pkg/utils                                                               *)
(***************************************************************************)

\* utils.IsValidFile: the path exists and is not a directory.
IsValidFile(fsys, path) == Exists(fsys, path) /\ ~IsDir(fsys, path)

\* Fault variant of IsValidDirectory: every path that exists is accepted.
IsValidDirectoryAnyKind(fsys, path) == Exists(fsys, path)

\* utils.IsValidDirectory: the path exists and is a directory.
IsValidDirectory(fsys, path) == Exists(fsys, path) /\ IsDir(fsys, path)

GlobChars == {"*", "?", "[", "]", "{", "}"}

\* utils.IsGlobPattern
IsGlobPattern(inp) == ContainsAny(inp, GlobChars)

\* Fault variant of IsJSONEntry: directories are not excluded.
IsJSONEntryAnyKind(fsys, dirPath, name) == ToLower(Ext(name)) = DotJson

\* The entry name is kept by RetrieveJSONFilesFromDirectory.
IsJSONEntry(fsys, dirPath, name) ==
    /\ ~IsDir(fsys, Join(dirPath, name))
    /\ ToLower(Ext(name)) = DotJson

\* utils.RetrieveJSONFilesFromDirectory: [err, files].
RetrieveJSONFilesFromDirectory(fsys, dirPath) ==
    IF ~ReadDirOK(fsys, dirPath) THEN [err |-> TRUE, files |-> <<>>]
    ELSE [err |-> FALSE,
          files |-> SelectSeq(ReadDir(fsys, dirPath),
                              LAMBDA n : IsJSONEntry(fsys, dirPath, n))]

(***************************************************************************)
(* multierror.Group as processFiles and SafeMultierrorWait use it:         *)
(* [nilptr, err, mutex, wg]. err is the *multierror.Error of the group,    *)
(* mutex the task holding the group's mutex (0: free), wg the WaitGroup    *)
(* counter.                                                                *)
(***************************************************************************)

NewGroup == [nilptr |-> FALSE, err |-> NilResult, mutex |-> 0, wg |-> 0]

\* multierror.Append(e, err)
MultiAppend(e, err) == [isNil |-> FALSE, errors |-> Append(e.errors, err)]

\* (*multierror.Error).ErrorOrNil
ErrorOrNil(e) == IF e.isNil \/ Len(e.errors) = 0 THEN NilResult ELSE e

\* Fault variant of GroupWaitReturns: the wait also ends as soon as one error
\* has been recorded (a wait that short-circuits on the first failure).
GroupWaitShortCircuit(grp) ==
    (grp.wg = 0 \/ ~grp.err.isNil) /\ grp.mutex = 0

\* Fault variant of GroupWaitReturns: the wait gives up on the functions
\* that are still running (a wait with a timeout).
GroupWaitTimesOut(grp) == grp.mutex = 0

\* g.Wait() returns: every task has called wg.Done and the mutex is free.
GroupWaitReturns(grp) == grp.wg = 0 /\ grp.mutex = 0

\* Fault variant of SafeMultierrorWait: only the first recorded error is
\* returned.
SafeMultierrorWaitFirst(grp) ==
    IF grp.nilptr THEN Single(Err("multierror.Group is nil", <<>>, 0))
    ELSE IF grp.err.isNil \/ Len(grp.err.errors) = 0 THEN NilResult
    ELSE Single(grp.err.errors[1])

\* Fault variant of SafeMultierrorWait: the *multierror.Error that g.Wait()
\* returned is returned as it is, without ErrorOrNil, so that a nil pointer
\* becomes a non-nil error value.
SafeMultierrorWaitTyped(grp) ==
    IF grp.nilptr THEN Single(Err("multierror.Group is nil", <<>>, 0))
    ELSE [isNil |-> FALSE, errors |-> grp.err.errors]

\* Fault variant of SafeMultierrorWait: a nil group is not told apart from
\* an empty one.
SafeMultierrorWaitNoNilCheck(grp) == ErrorOrNil(grp.err)

\* utils.SafeMultierrorWait once g.Wait() has returned (or g is nil).
SafeMultierrorWait(grp) ==
    IF grp.nilptr THEN Single(Err("multierror.Group is nil", <<>>, 0))
    ELSE ErrorOrNil(grp.err)

(***************************************************************************)
(* processFiles: the switch that resolves the input.                       *)
(* A resolution is [mode, pc, result, files]: pc is "done" when            *)
(* processFiles returns result at once, "launch" when it goes on to start  *)
(* one task per file, "single" when it calls                               *)
(* CreateDocumentationFromFile on the input itself.                        *)
(***************************************************************************)

Resolved(mode, pc, result, files) ==
    [mode |-> mode, pc |-> pc, result |-> result, files |-> files]

\* Fault variant of GlobCase: a pattern without matches is reported as an
\* error.
GlobCaseNoMatchError(fsys, inp) ==
    LET g == Glob(fsys, inp)
    IN  IF g.err
        THEN [mode |-> "glob", pc |-> "done",
              result |-> Single(Err("syntax error in pattern", <<>>, 0)),
              files |-> <<>>]
        ELSE IF Len(g.matches) = 0
             THEN [mode |-> "glob", pc |-> "done",
                   result |-> Single(Err("no files found", <<>>, 0)),
                   files |-> <<>>]
             ELSE [mode |-> "glob", pc |-> "launch", result |-> NilResult,
                   files |-> g.matches]

\* Fault variant of GlobCase: the error of filepath.Glob is dropped.
GlobCaseIgnoreErr(fsys, inp) ==
    LET g == Glob(fsys, inp)
    IN  IF Len(g.matches) = 0
        THEN [mode |-> "glob", pc |-> "done", result |-> NilResult,
              files |-> <<>>]
        ELSE [mode |-> "glob", pc |-> "launch", result |-> NilResult,
              files |-> g.matches]

\* case utils.IsGlobPattern(input)
GlobCase(fsys, inp) ==
    LET g == Glob(fsys, inp)
    IN  IF g.err
        THEN Resolved("glob", "done",
                      Single(Err("syntax error in pattern", <<>>, 0)), <<>>)
        ELSE IF Len(g.matches) = 0
             THEN Resolved("glob", "done", NilResult, <<>>)
             ELSE Resolved("glob", "launch", NilResult, g.matches)

\* Fault variant of FileCase: the extension is compared without ToLower.
FileCaseSensitive(inp) ==
    IF Ext(inp) # DotJson
    THEN [mode |-> "file", pc |-> "done",
          result |-> Single(Err("input file must be a json file", <<>>, 0)),
          files |-> <<>>]
    ELSE [mode |-> "file", pc |-> "single", result |-> NilResult,
          files |-> <<inp>>]

\* case utils.IsValidFile(input)
FileCase(inp) ==
    IF ToLower(Ext(inp)) # DotJson
    THEN Resolved("file", "done",
                  Single(Err("input file must be a json file", <<>>, 0)), <<>>)
    ELSE Resolved("file", "single", NilResult, <<inp>>)

\* case utils.IsValidDirectory(input)
DirCase(fsys, inp) ==
    LET r == RetrieveJSONFilesFromDirectory(fsys, inp)
    IN  IF r.err
        THEN Resolved("dir", "done",
                      Single(Err("cannot read directory", inp, 0)), <<>>)
        ELSE IF Len(r.files) = 0
             THEN Resolved("dir", "done", NilResult, <<>>)
             ELSE Resolved("dir", "launch", NilResult, r.files)

\* default
DefaultCase ==
    Resolved("invalid", "done",
             Single(Err("input path is not a valid file, directory, or glob pattern",
                        <<>>, 0)), <<>>)

\* Fault variant of ResolveInput: the file case is tested before the glob
\* case.
ResolveInputFileFirst(fsys, inp) ==
    IF IsValidFile(fsys, inp) THEN FileCase(inp)
    ELSE IF IsGlobPattern(inp) THEN GlobCase(fsys, inp)
    ELSE IF IsValidDirectory(fsys, inp) THEN DirCase(fsys, inp)
    ELSE DefaultCase

\* The switch of processFiles, its cases tested in order.
ResolveInput(fsys, inp) ==
    IF IsGlobPattern(inp) THEN GlobCase(fsys, inp)
    ELSE IF IsValidFile(fsys, inp) THEN FileCase(inp)
    ELSE IF IsValidDirectory(fsys, inp) THEN DirCase(fsys, inp)
    ELSE DefaultCase

(***************************************************************************)
(* The file systems and inputs of the model.                               *)
(***************************************************************************)

File(path, content) ==
    [path |-> path, isDir |-> FALSE, readable |-> TRUE, content |-> content]
Locked(path, content) ==
    [path |-> path, isDir |-> FALSE, readable |-> FALSE, content |-> content]
Dir(path) ==
    [path |-> path, isDir |-> TRUE, readable |-> TRUE, content |-> ""]
LockedDir(path) ==
    [path |-> path, isDir |-> TRUE, readable |-> FALSE, content |-> ""]

\* Path names.
PathD == << "d" >>
PathE == << "e" >>
PathL == << "l" >>
PathM == << "m" >>
PathBraces == << "{", "d", "}" >>
PathAJson == << "a", ".", "j", "s", "o", "n" >>
PathUJSON == << "u", ".", "J", "S", "O", "N" >>
PathTTxt == << "t", ".", "t", "x", "t" >>
PathBracketA == << "[", "a", "]", ".", "j", "s", "o", "n" >>
PathNope == << "n", "o", "p", "e" >>
NameBJSON == << "b", ".", "J", "S", "O", "N" >>
NameCJson == << "c", ".", "j", "s", "o", "n" >>
NameNTxt == << "n", ".", "t", "x", "t" >>
NameSJson == << "s", ".", "j", "s", "o", "n" >>
NameXJSON == << "x", ".", "J", "S", "O", "N" >>
NameXJSONJson == NameXJSON \o DotJson
NamePJson == << "p", ".", "j", "s", "o", "n" >>
NameEJson == << "e", ".", "j", "s", "o", "n" >>

\* Entries that every file system of the model has.
BaseFS ==
    { File(PathAJson, "round"),
      File(PathUJSON, "rows"),
      File(PathTTxt, "text"),
      File(PathBracketA, "rows"),
      Dir(PathBraces), File(Join(PathBraces, PathAJson), "round"),
      LockedDir(PathL), File(Join(PathL, PathAJson), "round"),
      Dir(PathM), File(Join(PathM, NameNTxt), "text"),
      Dir(PathE), File(Join(PathE, PathAJson), "badquery"),
      Dir(PathD) }

\* The directory named s.json inside d, which holds a JSON file of its own.
SubDir == Dir(Join(PathD, NameSJson))
Nested == File(Join(Join(PathD, NameSJson), NameEJson), "round")

\* Entries directory d may hold.
Pool ==
    { File(Join(PathD, PathAJson), "round"),
      File(Join(PathD, NameBJSON), "empty"),
      File(Join(PathD, NameCJson), "badquery"),
      File(Join(PathD, NameNTxt), "text"),
      SubDir,
      File(Join(PathD, NameXJSON), "rows"),
      File(Join(PathD, NameXJSONJson), "badquery"),
      Locked(Join(PathD, NamePJson), "round") }

\* The most entries of Pool one file system holds.
MaxFiles == 3

FileSystems ==
    { BaseFS \cup S \cup (IF SubDir \in S THEN {Nested} ELSE {}) :
        S \in { T \in SUBSET Pool : Cardinality(T) <= MaxFiles } }

\* The values of the input flag.
Inputs ==
    { PathD,                                           \* a directory
      << "d", "/", "*" >>,                             \* every entry of d
      << "?", "/", "a", ".", "j", "s", "o", "n" >>,    \* a.json of every directory
      PathAJson, PathUJSON, PathTTxt,                  \* single files
      PathNope,                                        \* names nothing
      << "[", "a" >>,                                  \* malformed pattern
      PathBracketA,                                    \* a pattern and a file name
      PathBraces,                                      \* glob characters, a directory
      PathL, PathM,                                    \* unreadable, no JSON entries
      << "z", "*" >> }                                 \* matches nothing

(***************************************************************************)
(* Output files. The output directory maps file names to contents          *)
(* [kind, data]: "doc" is a rendered document, "empty" a created or        *)
(* truncated file nothing was written to, "old" a file left by an earlier  *)
(* run, "mixed" bytes of two documents written through two descriptors.    *)
(***************************************************************************)

NoData == [title |-> "", description |-> "", panels |-> <<>>]
Doc(data) == [kind |-> "doc", data |-> data]
Empty == [kind |-> "empty", data |-> NoData]
Old == [kind |-> "old", data |-> NoData]
Mixed == [kind |-> "mixed", data |-> NoData]

\* The name of the markdown file of a dashboard path, inside the output
\* directory: strings.TrimSuffix(filepath.Base(dashboard), ".json") + ".md".
OutName(path) == TrimSuffix(Base(path), DotJson) \o DotMd

\* The output directory before the run: files of an earlier run.
InitialOut ==
    [n \in { OutName(NameCJson), OutName(NameBJSON) } |-> Old]

\* What a file holds after one task's template output is written to it from
\* offset 0: the document, when the file was empty or held the same document;
\* otherwise another descriptor has written since this task truncated the
\* file, and the result is the document or a mix of both, by their lengths
\* and the order of the template's writes.
WriteOutcomes(cur, data) ==
    IF cur = Empty \/ cur = Doc(data) THEN { Doc(data) }
    ELSE { Doc(data), Mixed }

(***************************************************************************)
(* State                                                                   *)
(***************************************************************************)

VARIABLES
    fs,        \* the input file system
    input,     \* the input flag
    outputOK,  \* the output directory exists
    out,       \* the output directory: file name -> content
    pcMain,    \* processFiles: "start", "launch", "single", "done"
    mode,      \* the case of the switch taken: "none" before it is evaluated
    matches,   \* the files the input resolved to
    next,      \* index into matches of the next task to launch
    result,    \* the value processFiles returned
    tasks,     \* the tasks started so far, in launch order
    g,         \* the multierror.Group
    reads,     \* paths os.ReadFile was called on
    opened,    \* output names os.OpenFile created or truncated
    help,      \* the -help flag
    logLevel,  \* the -log-level flag
    callArg,   \* the argument of a function that is called on its own
    callRet    \* the value that function returned

vars == << fs, input, outputOK, out, pcMain, mode, matches, next, result,
           tasks, g, reads, opened, help, logLevel, callArg,
           callRet >>

\* The flags run validates before processFiles, and the argument and result
\* of a function called on its own: no step of processFiles changes them.
callVars == << help, logLevel, callArg, callRet >>

\* No function is called on its own.
NoCall == <<>>

\* A task: arg is the match or file name it was started for; pc its position;
\* ret what its function returned; bs the bytes it read; name its output
\* file; seen the group's error as it read it under the mutex.
NewTask(arg) ==
    [arg |-> arg, pc |-> "begin", ret |-> Nil, bs |-> "", name |-> <<>>,
     seen |-> NilResult]

\* The dashboard path of a task: in directory mode the closure joins the
\* directory and the file name.
TaskPath(t) == IF mode = "dir" THEN Join(input, t.arg) ELSE t.arg

Init ==
    /\ help = FALSE
    /\ logLevel = 0
    /\ callArg = NoCall
    /\ callRet = NoCall
    /\ fs \in FileSystems
    /\ input \in Inputs
    /\ outputOK \in BOOLEAN
    /\ out = InitialOut
    /\ pcMain = "start"
    /\ mode = "none"
    /\ matches = <<>>
    /\ next = 1
    /\ result = NilResult
    /\ tasks = <<>>
    /\ g = NewGroup
    /\ reads = {}
    /\ opened = {}

(***************************************************************************)
(* processFiles                                                            *)
(***************************************************************************)

\* The switch: the input is resolved; processFiles returns at once, or goes
\* on to the launch loop, or calls CreateDocumentationFromFile itself.
Resolve ==
    /\ pcMain = "start"
    /\ LET r == ResolveInput(fs, input)
       IN  /\ mode' = r.mode
           /\ pcMain' = r.pc
           /\ result' = r.result
           /\ matches' = r.files
           /\ tasks' = IF r.pc = "single" THEN << NewTask(input) >> ELSE <<>>
    /\ UNCHANGED << fs, input, outputOK, out, next, g, reads, opened >>
    /\ UNCHANGED callVars

\* One iteration of the launch loop: g.Go(func() error {...}).  The closure
\* captures the loop variable of its own iteration (the project builds with
\* Go 1.23, where each iteration has its own variable), so a task keeps the
\* match it was started for.
Launch ==
    /\ pcMain = "launch"
    /\ next <= Len(matches)
    /\ tasks' = Append(tasks, NewTask(matches[next]))
    /\ g' = [g EXCEPT !.wg = @ + 1]
    /\ next' = next + 1
    /\ UNCHANGED << fs, input, outputOK, out, pcMain, mode, matches, result,
                    reads, opened >>
    /\ UNCHANGED callVars

\* utils.SafeMultierrorWait(&g) returns and processFiles returns its value.
Wait ==
    /\ pcMain = "launch"
    /\ next > Len(matches)
    /\ GroupWaitReturns(g)
    /\ result' = SafeMultierrorWait(g)
    /\ pcMain' = "done"
    /\ UNCHANGED << fs, input, outputOK, out, mode, matches, next, tasks, g,
                    reads, opened >>
    /\ UNCHANGED callVars

\* Single file mode: CreateDocumentationFromFile returned to processFiles,
\* which returns its error.
SingleReturn ==
    /\ pcMain = "single"
    /\ tasks[1].pc = "ret"
    /\ result' = IF IsNil(tasks[1].ret) THEN NilResult ELSE Single(tasks[1].ret)
    /\ tasks' = [tasks EXCEPT ![1].pc = "done"]
    /\ pcMain' = "done"
    /\ UNCHANGED << fs, input, outputOK, out, mode, matches, next, g,
                    reads, opened >>
    /\ UNCHANGED callVars

(***************************************************************************)
(* A task: the closure given to g.Go and CreateDocumentationFromFile       *)
(***************************************************************************)

\* Task i returns err from its function.
Return(i, err) == [tasks EXCEPT ![i].pc = "ret", ![i].ret = err]

\* Fault variant of SkipsMatch: the closure has no extension test.
SkipsMatchNever(path) == FALSE

\* In glob mode the closure skips a match whose extension is not .json.
SkipsMatch(path) == mode = "glob" /\ ToLower(Ext(path)) # DotJson

\* os.ReadFile(dashboard) succeeds.
ReadFileOK(fsys, path) ==
    Exists(fsys, path) /\ ~IsDir(fsys, path) /\ Readable(fsys, path)

\* The closure's extension test, then os.ReadFile and json.Unmarshal.
TaskBegin(i) ==
    /\ tasks[i].pc = "begin"
    /\ LET path == TaskPath(tasks[i])
       IN  IF SkipsMatch(path)
           THEN /\ tasks' = Return(i, Nil)
                /\ reads' = reads
           ELSE /\ reads' = reads \cup {path}
                /\ IF ~ReadFileOK(fs, path)
                   THEN tasks' = Return(i, Err("error reading dashboard file", path, i))
                   ELSE IF Unmarshal(Entry(fs, path).content).err
                        THEN tasks' = Return(i,
                                 Err("error unmarshalling dashboard json", <<>>, i))
                        ELSE tasks' = [tasks EXCEPT
                                         ![i].pc = "open",
                                         ![i].bs = Entry(fs, path).content]
    /\ UNCHANGED << fs, input, outputOK, out, pcMain, mode, matches, next,
                    result, g, opened >>
    /\ UNCHANGED callVars

\* os.OpenFile(fileName, O_RDWR|O_CREATE|O_TRUNC): the output file is created
\* or truncated, or the open fails because the output directory is missing.
TaskOpen(i) ==
    /\ tasks[i].pc = "open"
    /\ LET name == OutName(TaskPath(tasks[i]))
       IN  IF ~outputOK
           THEN /\ tasks' = Return(i,
                      Err("error opening the corresponding markdown file", name, i))
                /\ UNCHANGED << out, opened >>
           ELSE /\ tasks' = [tasks EXCEPT ![i].pc = "render", ![i].name = name]
                /\ out' = [n \in DOMAIN out \cup {name} |->
                             IF n = name THEN Empty ELSE out[n]]
                /\ opened' = opened \cup {name}
    /\ UNCHANGED << fs, input, outputOK, pcMain, mode, matches, next, result,
                    g, reads >>
    /\ UNCHANGED callVars

\* The panel loop and tmpl.Execute(f, data): a target that does not parse
\* returns the error with the file left as it is; otherwise the document is
\* written.
TaskRender(i) ==
    /\ tasks[i].pc = "render"
    /\ LET m == MarkdownData(Unmarshal(tasks[i].bs).dash)
           name == tasks[i].name
       IN  IF m.err
           THEN /\ tasks' = Return(i,
                      Err("error parsing promql expression", <<>>, i))
                /\ out' = out
           ELSE /\ tasks' = Return(i, Nil)
                /\ \E c \in WriteOutcomes(out[name], m.data) :
                      out' = [out EXCEPT ![name] = c]
    /\ UNCHANGED << fs, input, outputOK, pcMain, mode, matches, next, result,
                    g, reads, opened >>
    /\ UNCHANGED callVars

\* The task belongs to the group (it was started by g.Go).
InGroup == pcMain \in {"launch", "done"} /\ mode # "file"

\* The function returned nil: the goroutine of g.Go ends with wg.Done().
TaskFinishNil(i) ==
    /\ InGroup
    /\ tasks[i].pc = "ret"
    /\ IsNil(tasks[i].ret)
    /\ tasks' = [tasks EXCEPT ![i].pc = "done"]
    /\ g' = [g EXCEPT !.wg = @ - 1]
    /\ UNCHANGED << fs, input, outputOK, out, pcMain, mode, matches, next,
                    result, reads, opened >>
    /\ UNCHANGED callVars

\* The function returned an error: g.mutex.Lock().
TaskLock(i) ==
    /\ InGroup
    /\ tasks[i].pc = "ret"
    /\ ~IsNil(tasks[i].ret)
    /\ g.mutex = 0
    /\ g' = [g EXCEPT !.mutex = i]
    /\ tasks' = [tasks EXCEPT ![i].pc = "locked"]
    /\ UNCHANGED << fs, input, outputOK, out, pcMain, mode, matches, next,
                    result, reads, opened >>
    /\ UNCHANGED callVars

\* multierror.Append(g.err, err): g.err is read.
TaskAppendRead(i) ==
    /\ tasks[i].pc = "locked"
    /\ tasks' = [tasks EXCEPT ![i].pc = "append", ![i].seen = g.err]
    /\ UNCHANGED << fs, input, outputOK, out, pcMain, mode, matches, next,
                    result, g, reads, opened >>
    /\ UNCHANGED callVars

\* g.err = (the appended error); g.mutex.Unlock().
TaskAppendWrite(i) ==
    /\ tasks[i].pc = "append"
    /\ g' = [g EXCEPT !.err = MultiAppend(tasks[i].seen, tasks[i].ret),
                      !.mutex = 0]
    /\ tasks' = [tasks EXCEPT ![i].pc = "unlocked"]
    /\ UNCHANGED << fs, input, outputOK, out, pcMain, mode, matches, next,
                    result, reads, opened >>
    /\ UNCHANGED callVars

\* The deferred wg.Done() of a task that recorded its error.
TaskDone(i) ==
    /\ tasks[i].pc = "unlocked"
    /\ tasks' = [tasks EXCEPT ![i].pc = "done"]
    /\ g' = [g EXCEPT !.wg = @ - 1]
    /\ UNCHANGED << fs, input, outputOK, out, pcMain, mode, matches, next,
                    result, reads, opened >>
    /\ UNCHANGED callVars

Next ==
    \/ Resolve
    \/ Launch
    \/ Wait
    \/ SingleReturn
    \/ \E i \in 1..Len(tasks) : TaskBegin(i)
    \/ \E i \in 1..Len(tasks) : TaskOpen(i)
    \/ \E i \in 1..Len(tasks) : TaskRender(i)
    \/ \E i \in 1..Len(tasks) : TaskFinishNil(i)
    \/ \E i \in 1..Len(tasks) : TaskLock(i)
    \/ \E i \in 1..Len(tasks) : TaskAppendRead(i)
    \/ \E i \in 1..Len(tasks) : TaskAppendWrite(i)
    \/ \E i \in 1..Len(tasks) : TaskDone(i)

Spec == Init /\ [][Next]_vars

(***************************************************************************)
(* The group on its own, as TestSafeMultierrorWait sets it up: a nil       *)
(* group, or a group of up to MaxTasks functions that each return nil or   *)
(* an error, then SafeMultierrorWait.                                      *)
(***************************************************************************)

\* The most functions given to one group.
MaxTasks == 3

\* A started function that returns err.
Returning(err) == [NewTask(<<>>) EXCEPT !.pc = "ret", !.ret = err]

InitWait ==
    /\ help = FALSE
    /\ logLevel = 0
    /\ callArg = NoCall
    /\ callRet = NoCall
    /\ fs = BaseFS
    /\ input = <<>>
    /\ outputOK = TRUE
    /\ out = InitialOut
    /\ pcMain = "launch"
    /\ mode = "group"
    /\ matches = <<>>
    /\ next = 1
    /\ result = NilResult
    /\ reads = {}
    /\ opened = {}
    /\ \E k \in 0..MaxTasks :
         \E fails \in [1..k -> BOOLEAN] :
            \E nilptr \in { FALSE, k = 0 } :
               /\ tasks = [i \in 1..k |->
                             Returning(IF fails[i]
                                       THEN Err("task error", <<>>, i)
                                       ELSE Nil)]
               /\ g = [NewGroup EXCEPT !.wg = k, !.nilptr = nilptr]

NextWait ==
    \/ Wait
    \/ \E i \in 1..Len(tasks) : TaskFinishNil(i)
    \/ \E i \in 1..Len(tasks) : TaskLock(i)
    \/ \E i \in 1..Len(tasks) : TaskAppendRead(i)
    \/ \E i \in 1..Len(tasks) : TaskAppendWrite(i)
    \/ \E i \in 1..Len(tasks) : TaskDone(i)

SpecWait == InitWait /\ [][NextWait]_vars

(***************************************************************************)
(* RetrieveJSONFilesFromDirectory on its own, called on any path.          *)
(***************************************************************************)

RetrieveInputs ==
    { PathD, PathL, PathM, PathE, PathTTxt, PathNope, Join(PathD, NameSJson) }

InitRetrieve ==
    /\ help = FALSE
    /\ logLevel = 0
    /\ callArg = NoCall
    /\ callRet = NoCall
    /\ fs \in FileSystems
    /\ input \in RetrieveInputs
    /\ outputOK = TRUE
    /\ out = InitialOut
    /\ pcMain = "start"
    /\ mode = "retrieve"
    /\ matches = <<>>
    /\ next = 1
    /\ result = NilResult
    /\ tasks = <<>>
    /\ g = NewGroup
    /\ reads = {}
    /\ opened = {}

\* files, err := utils.RetrieveJSONFilesFromDirectory(input)
CallRetrieve ==
    /\ pcMain = "start"
    /\ LET r == RetrieveJSONFilesFromDirectory(fs, input)
       IN  /\ matches' = r.files
           /\ result' = IF r.err
                        THEN Single(Err("cannot read directory", input, 0))
                        ELSE NilResult
    /\ pcMain' = "done"
    /\ UNCHANGED << fs, input, outputOK, out, mode, next, tasks, g, reads,
                    opened >>
    /\ UNCHANGED callVars

SpecRetrieve == InitRetrieve /\ [][CallRetrieve]_vars

(***************************************************************************)
(* Properties                                                              *)
(***************************************************************************)

Returned == pcMain = "done"
Batch == mode \in {"glob", "dir"}
TaskIds == 1..Len(tasks)
Failed == { i \in TaskIds : ~IsNil(tasks[i].ret) }

\* The file at path is a dashboard that can be documented: it can be read,
\* its content is a JSON dashboard, and every query of it parses.
ValidDashboard(path) ==
    /\ Exists(fs, path) /\ ~Entry(fs, path).isDir /\ Entry(fs, path).readable
    /\ Entry(fs, path).content \in {"round", "rows"}

\* The tasks of the batch that process a file (in glob mode a match that is
\* not a .json file is skipped), split into those of valid files and those
\* of invalid ones.
Processing == { i \in TaskIds : ~SkipsMatch(TaskPath(tasks[i])) }
ValidTasks == { i \in Processing : ValidDashboard(TaskPath(tasks[i])) }
InvalidTasks == Processing \ ValidTasks

\* The document a valid file renders to when it is processed alone.
AloneDoc(path) == Doc(MarkdownData(Unmarshal(Entry(fs, path).content).dash).data)

\* C1: in glob and directory mode processFiles has returned only if every
\* file it resolved has a task and every task has finished, also when some
\* task failed.
C1_ReturnsAfterAllTasks ==
    (Returned /\ Batch) =>
        /\ Len(tasks) = Len(matches)
        /\ \A i \in TaskIds : tasks[i].pc = "done"

C1_Witness ==
    /\ Returned /\ Batch
    /\ Len(tasks) >= 2
    /\ Failed # {}
    /\ Failed # TaskIds

\* C2: after the wait the aggregate error holds exactly one error per failed
\* task: as many errors as failed tasks, and the error of each failed task
\* exactly once.
C2_OneErrorPerFailedTask ==
    (Returned /\ Batch /\ tasks # <<>>) =>
        /\ Len(result.errors) = Cardinality(Failed)
        /\ \A i \in Failed :
              Cardinality({ k \in 1..Len(result.errors) :
                              result.errors[k] = tasks[i].ret }) = 1

C2_Witness ==
    /\ Returned /\ Batch
    /\ Cardinality(Failed) >= 2
    /\ Len(result.errors) >= 2

\* C3: a batch of N >= 1 valid and M >= 1 invalid files, the output
\* directory existing, ends with exactly N output files written and M
\* failure messages in the aggregate error.
C3_ExactlyNOutputFiles ==
    (Returned /\ Batch /\ outputOK /\ ValidTasks # {} /\ InvalidTasks # {}) =>
        /\ Cardinality(opened) = Cardinality(ValidTasks)
        /\ Len(result.errors) = Cardinality(InvalidTasks)

\* C4: whatever its siblings do, the task of every valid file of a batch
\* runs to completion without error and its output file ends with the
\* document the file renders to when processed alone.
C4_ValidFileUnaffected ==
    (Returned /\ outputOK) =>
        \A i \in ValidTasks :
            /\ tasks[i].pc = "done"
            /\ IsNil(tasks[i].ret)
            /\ OutName(TaskPath(tasks[i])) \in DOMAIN out
            /\ out[OutName(TaskPath(tasks[i]))] = AloneDoc(TaskPath(tasks[i]))

\* C5: SafeMultierrorWait on a non-nil group returns nil if and only if no
\* function of the group returned an error; a group without functions
\* returns nil.
C5_NilIffNoTaskFailed ==
    (Returned /\ ~g.nilptr) => (result.isNil <=> Failed = {})

C5_Witness ==
    /\ Returned /\ ~g.nilptr
    /\ Failed # {} /\ Failed # TaskIds
    /\ ~result.isNil

\* C5 (no tasks): the wait on a group without functions has returned nil.
C5_EmptyGroupReached == Returned /\ ~g.nilptr /\ tasks = <<>> /\ result.isNil

\* The case of the switch the precedence order selects for the input.
ExpectedMode ==
    IF \E k \in 1..Len(input) : input[k] \in {"*", "?", "[", "]", "{", "}"}
    THEN "glob"
    ELSE IF \E e \in fs : e.path = input /\ ~e.isDir THEN "file"
    ELSE IF \E e \in fs : e.path = input /\ e.isDir THEN "dir"
    ELSE "invalid"

InvalidInputError ==
    Single(Err("input path is not a valid file, directory, or glob pattern",
               <<>>, 0))

JSONEntries(dir) ==
    { SubSeq(e.path, Len(dir) + 2, Len(e.path)) :
        e \in { x \in fs :
                  /\ ~x.isDir
                  /\ Len(x.path) > Len(dir) + 1
                  /\ SubSeq(x.path, 1, Len(dir) + 1) = dir \o <<"/">>
                  /\ \A k \in (Len(dir) + 2)..Len(x.path) : x.path[k] # "/"
                  /\ HasSuffix(ToLower(x.path), DotJson) } }

ReadableDir(path) ==
    \E e \in fs : e.path = path /\ e.isDir /\ e.readable

\* The input resolves to zero files: a well-formed glob nothing matches, or
\* a readable directory without .json file entries.
ZeroFiles ==
    \/ ExpectedMode = "glob" /\ ~BadPattern(input)
         /\ GlobMatches(fs, input) = <<>>
    \/ ExpectedMode = "dir" /\ ReadableDir(input) /\ JSONEntries(input) = {}

NothingDone ==
    /\ tasks = <<>>
    /\ reads = {}
    /\ opened = {}
    /\ out = InitialOut

\* C7: when the input resolves to zero files processFiles returns success
\* at once: no task is launched and no file is read or written, then or
\* later.
C7_ZeroFilesSucceeds ==
    /\ [][(pcMain = "start" /\ ZeroFiles) =>
            (pcMain' = "done" /\ result'.isNil /\ NothingDone')]_vars
    /\ []((Returned /\ tasks = <<>>) => NothingDone)

C7_Witness == Returned /\ ZeroFiles /\ ExpectedMode = "glob"

\* C7 (directory): a directory without .json file entries has been processed.
C7_DirReached ==
    Returned /\ ZeroFiles /\ ExpectedMode = "dir" /\ Names(fs, input) # {}

C8_InvalidReached == Returned /\ ExpectedMode = "invalid" /\ ~result.isNil

\* C9: a single-file input whose extension is not .json in any letter case
\* fails with 'input file must be a json file' and nothing is read or
\* written; one whose extension is .json in any letter case is processed as
\* exactly one task, which reads that file.
C9_SingleFileExtension ==
    ExpectedMode = "file" =>
        IF HasSuffix(ToLower(input), DotJson)
        THEN pcMain # "start" =>
                /\ Len(tasks) = 1
                /\ TaskPath(tasks[1]) = input
                /\ reads \subseteq {input}
                /\ tasks[1].pc # "begin" => reads = {input}
                /\ Returned =>
                     /\ tasks[1].pc = "done"
                     /\ result.isNil <=> IsNil(tasks[1].ret)
        ELSE /\ NothingDone
             /\ pcMain # "start" =>
                  /\ Returned
                  /\ result = Single(Err("input file must be a json file",
                                         <<>>, 0))

C9_Witness ==
    /\ Returned
    /\ ExpectedMode = "file"
    /\ ~HasSuffix(ToLower(input), DotJson)
    /\ ~result.isNil

\* C9 (accepted): a file with the extension .JSON has been processed.
C9_UpperCaseReached ==
    /\ Returned
    /\ input = PathUJSON
    /\ Len(tasks) = 1 /\ tasks[1].pc = "done" /\ reads = {input}

\* C10: RetrieveJSONFilesFromDirectory returns exactly the names of the
\* immediate entries that are files with extension .json in any letter
\* case, each once, and an empty list with an error when the path cannot be
\* read as a directory.
C10_RetrieveExactlyJSONFiles ==
    Returned =>
        IF ReadableDir(input)
        THEN /\ result.isNil
             /\ { matches[k] : k \in 1..Len(matches) } = JSONEntries(input)
             /\ Len(matches) = Cardinality(JSONEntries(input))
        ELSE /\ ~result.isNil
             /\ matches = <<>>

C10_Witness ==
    /\ Returned
    /\ input = PathD
    /\ SubDir \in fs
    /\ File(Join(PathD, NameBJSON), "empty") \in fs
    /\ File(Join(PathD, NameNTxt), "text") \in fs
    /\ matches = << NameBJSON >>

\* C10 (error): a path that is not a readable directory has been rejected.
C10_ErrorReached == Returned /\ ~ReadableDir(input) /\ ~result.isNil

\* The base name of a path without its extension when that extension is
\* .json in any letter case.
BaseWithoutJson(path) ==
    LET b == Base(path)
    IN  IF ToLower(Ext(b)) = DotJson
        THEN SubSeq(b, 1, Len(b) - Len(DotJson))
        ELSE b

\* The tasks that have opened their output file.
Opened == { i \in TaskIds : tasks[i].name # <<>> }

\* C11: the output file a task opens for an accepted input is named after
\* the input's base name without its .json extension, with .md appended,
\* and what a file of that name held before the run is gone.
C11_OutputNamedAfterInput ==
    \A i \in Opened :
        /\ tasks[i].name = BaseWithoutJson(TaskPath(tasks[i])) \o DotMd
        /\ tasks[i].name \in DOMAIN out
        /\ out[tasks[i].name] # Old

\* A task holds its output file open from os.OpenFile until
\* CreateDocumentationFromFile returns.
HoldsOpen(i) == tasks[i].pc = "render"

\* C12: in a batch two distinct input files never map to the same output
\* file, and no two tasks hold the same output file open at the same time.
C12_OutputPathsDisjoint ==
    Batch =>
        /\ \A i, j \in Processing :
              i # j => OutName(TaskPath(tasks[i])) # OutName(TaskPath(tasks[j]))
        /\ \A i, j \in TaskIds :
              (i # j /\ HoldsOpen(i) /\ HoldsOpen(j)) =>
                  tasks[i].name # tasks[j].name

(***************************************************************************)
(* Dashboard.GetPanels on its own, called on dashboards of every shape:    *)
(* up to MaxRows top-level panels, each of type "row" or "graph" and with  *)
(* up to MaxKids nested panels of either type.                             *)
(***************************************************************************)

\* The most top-level panels of a dashboard, and nested panels of one of
\* them.
MaxRows == 2
MaxKids == 2

PanelTypes == { "row", "graph" }

\* The shape of a top-level panel: its type and the types of its nested
\* panels.
RowShapes ==
    [type : PanelTypes,
     kids : UNION { [1..n -> PanelTypes] : n \in 0..MaxKids }]

DashShapes == UNION { [1..n -> RowShapes] : n \in 0..MaxRows }

\* The dashboard of a shape: every panel is titled by its position; a
\* top-level panel queries up, a nested panel bar.
ShapedDash(shape) ==
    [title |-> "S", description |-> "",
     panels |->
        [r \in 1..Len(shape) |->
            Row("R" \o ToString(r), << "r" >>, shape[r].type,
                << Tgt(ExprUp) >>,
                [k \in 1..Len(shape[r].kids) |->
                    Pnl("R" \o ToString(r) \o "K" \o ToString(k), << "k" >>,
                        shape[r].kids[k], << Tgt(ExprBar) >>)])]]

ShapedDashboards == { ShapedDash(sh) : sh \in DashShapes }

\* The state in which a function is about to be called on argument a.
InitCall(a) ==
    /\ fs = BaseFS
    /\ input = <<>>
    /\ outputOK = TRUE
    /\ out = InitialOut
    /\ pcMain = "start"
    /\ mode = "call"
    /\ matches = <<>>
    /\ next = 1
    /\ result = NilResult
    /\ tasks = <<>>
    /\ g = NewGroup
    /\ reads = {}
    /\ opened = {}
    /\ help = FALSE
    /\ logLevel = 0
    /\ callArg = a
    /\ callRet = NoCall

\* The function has returned r.
ReturnCall(r) ==
    /\ pcMain = "start"
    /\ pcMain' = "done"
    /\ callRet' = r
    /\ UNCHANGED << fs, input, outputOK, out, mode, matches, next, result,
                    tasks, g, reads, opened, help, logLevel, callArg >>

InitGetPanels == \E d \in ShapedDashboards : InitCall(d)

\* panels := dash.GetPanels()
CallGetPanels == ReturnCall(GetPanels(callArg))

SpecGetPanels == InitGetPanels /\ [][CallGetPanels]_vars

\* The number of nested panels of the top-level panels before panel r.
RECURSIVE KidsBefore(_, _)
KidsBefore(d, r) ==
    IF r <= 1 THEN 0
    ELSE KidsBefore(d, r - 1) + Len(d.panels[r - 1].panels)

\* C13 (as the code has it): GetPanels returns the nested panels of all
\* top-level panels, verbatim and in order, followed by one panel per
\* top-level panel, in order, built from its title, description, type and
\* targets: with two rows R1, R2 the result is children(R1), children(R2),
\* synthetic(R1), synthetic(R2).
C13_ChildrenThenRows ==
    Returned =>
        LET d == callArg
            n == Len(d.panels)
            kids == KidsBefore(d, n + 1)
        IN  /\ Len(callRet) = kids + n
            /\ \A r \in 1..n :
                  /\ \A k \in 1..Len(d.panels[r].panels) :
                        callRet[KidsBefore(d, r) + k] = d.panels[r].panels[k]
                  /\ callRet[kids + r] =
                        [title |-> d.panels[r].title,
                         description |-> d.panels[r].description,
                         type |-> d.panels[r].type,
                         targets |-> d.panels[r].targets]

\* C13 (as claimed): for each top-level panel in order, its nested panels
\* followed by the panel built from it: children(R1), synthetic(R1),
\* children(R2), synthetic(R2).
C13_RowByRowOrder == Returned => callRet = GetPanelsRowByRow(callArg)

C13_Witness ==
    /\ Returned
    /\ Len(callArg.panels) = 2
    /\ Len(callArg.panels[1].panels) = 2
    /\ Len(callArg.panels[2].panels) = 1
    /\ Len(callRet) = 5
    /\ callRet[3].title = "R2K1"
    /\ callRet[4].title = "R1"

(***************************************************************************)
(* The panel loop and the template execution of                            *)
(* CreateDocumentationFromFile on a decoded dashboard: the dashboards of   *)
(* every shape, and dashboards of one top-level panel with one nested      *)
(* panel whose targets are any lists of up to MaxTargets expressions.      *)
(***************************************************************************)

\* The most targets of one panel.
MaxTargets == 2

Exprs == { ExprUp, ExprFooFoo, ExprRateRange, ExprBar, ExprBad }

TargetLists == UNION { [1..n -> Exprs] : n \in 0..MaxTargets }

\* A top-level panel R1 of the given type with one nested graph panel R1K1.
QueryDash(type, rowExprs, kidExprs) ==
    [title |-> "Q", description |-> "",
     panels |->
        << Row("R1", <<>>, type,
               [k \in 1..Len(rowExprs) |-> Tgt(rowExprs[k])],
               << Pnl("R1K1", <<>>, "graph",
                      [k \in 1..Len(kidExprs) |-> Tgt(kidExprs[k])]) >>) >>]

QueryDashboards ==
    { QueryDash(t, a, b) : t \in PanelTypes, a \in TargetLists,
                           b \in TargetLists }

\* CreateDocumentationFromFile from the panel loop on, the output file just
\* opened: [err, doc, calls]. err is the error returned, doc what the output
\* file holds afterwards.
Render(dash) ==
    LET m == MarkdownData(dash)
    IN  [err |-> IF m.err
                 THEN Err("error parsing promql expression", <<>>, 0)
                 ELSE Nil,
         doc |-> IF m.err THEN Empty ELSE Doc(m.data),
         calls |-> m.calls]

InitRender == \E d \in ShapedDashboards \cup QueryDashboards : InitCall(d)

CallRender == ReturnCall(Render(callArg))

SpecRender == InitRender /\ [][CallRender]_vars

\* The flattened panels of the dashboard under call whose type is not "row".
NonRowPanels == SelectSeq(GetPanels(callArg), LAMBDA p : p.type # "row")

\* C14: the render model holds exactly the flattened panels whose type is
\* not "row", in the flattened order: a top-level panel of another type is
\* rendered, a nested panel of type "row" is not.
C14_RowTypeSkipped ==
    (Returned /\ IsNil(callRet.err)) =>
        LET rendered == callRet.doc.data.panels
        IN  /\ Len(rendered) = Len(NonRowPanels)
            /\ \A i \in 1..Len(rendered) :
                  /\ rendered[i].title = NonRowPanels[i].title
                  /\ rendered[i].type = NonRowPanels[i].type

C14_Witness ==
    /\ Returned
    /\ Len(callArg.panels) = 1
    /\ callArg.panels[1].type = "graph"
    /\ Len(callArg.panels[1].panels) = 2
    /\ callArg.panels[1].panels[1].type = "row"
    /\ callArg.panels[1].panels[2].type = "graph"
    /\ Len(callRet.doc.data.panels) = 2
    /\ callRet.doc.data.panels[1].title = "R1K2"
    /\ callRet.doc.data.panels[2].title = "R1"

\* The metric names a well-formed expression text of the model refers to,
\* in the order of the text.
MetricsInText(expr) ==
    IF expr = ExprUp THEN << "up" >>
    ELSE IF expr = ExprBar THEN << "bar" >>
    ELSE IF expr = ExprFooFoo THEN << "foo", "foo" >>
    ELSE IF expr = ExprRateRange THEN << "foo" >>
    ELSE <<>>

\* The index of the first occurrence of x in s.
FirstIndex(s, x) ==
    CHOOSE i \in 1..Len(s) : s[i] = x /\ \A j \in 1..(i - 1) : s[j] # x

\* u holds exactly the elements of s, each once, in the order of their
\* first occurrence in s.
IsFirstOccurrenceOrder(u, s) ==
    /\ \A i, j \in 1..Len(u) : i # j => u[i] # u[j]
    /\ { u[i] : i \in 1..Len(u) } = { s[i] : i \in 1..Len(s) }
    /\ \A i, j \in 1..Len(u) :
          i < j => FirstIndex(s, u[i]) < FirstIndex(s, u[j])

\* C15: the metrics of every rendered panel are the metrics of all targets
\* of that panel, concatenated in target order and then deduplicated once:
\* each metric once, at the place of its first occurrence, whatever the
\* other panels of the dashboard list.
C15_MetricsDedupPerPanel ==
    (Returned /\ IsNil(callRet.err)) =>
        \A i \in 1..Len(NonRowPanels) :
            LET targets == NonRowPanels[i].targets
                all == Flatten([k \in 1..Len(targets) |->
                                  MetricsInText(targets[k].expr)])
            IN  IsFirstOccurrenceOrder(callRet.doc.data.panels[i].metrics, all)

C15_Witness ==
    /\ Returned
    /\ callArg = QueryDash("graph", << ExprFooFoo, ExprUp >>,
                           << ExprRateRange, ExprFooFoo >>)
    /\ callRet.doc.data.panels[1].metrics = << "foo" >>
    /\ callRet.doc.data.panels[2].metrics = << "foo", "up" >>

(***************************************************************************)
(* utils.GetUniqueElements on its own, called on every sequence of up to   *)
(* MaxLen elements.                                                        *)
(***************************************************************************)

\* The longest sequence given to GetUniqueElements.
MaxLen == 4

Elems == { "a", "b", "c" }

InitUnique ==
    \E s \in UNION { [1..n -> Elems] : n \in 0..MaxLen } : InitCall(s)

\* unique := utils.GetUniqueElements(s)
CallGetUniqueElements == ReturnCall(GetUniqueElements(callArg))

SpecUnique == InitUnique /\ [][CallGetUniqueElements]_vars

\* C16: GetUniqueElements(s) holds no element twice, exactly the elements
\* of s, in the order of their first occurrence in s; it is empty for an
\* empty s and equal to s for an s without duplicates.
C16_UniqueFirstOccurrence ==
    Returned =>
        /\ IsFirstOccurrenceOrder(callRet, callArg)
        /\ callArg = <<>> => callRet = <<>>
        /\ (\A i, j \in 1..Len(callArg) : i # j => callArg[i] # callArg[j])
              => callRet = callArg

C16_Witness ==
    /\ Returned
    /\ callArg = << "b", "a", "b", "c" >>
    /\ callRet = << "b", "a", "c" >>

\* C16 (empty): the function has been called on the empty sequence.
C16_EmptyReached == Returned /\ callArg = <<>> /\ callRet = <<>>

(***************************************************************************)
(* The placeholder replacer on its own, called on every text made of up to *)
(* MaxPieces pieces: the placeholders, fragments of them, the replacement  *)
(* text and an expression that holds a placeholder.                        *)
(***************************************************************************)

\* The most pieces of one text.
MaxPieces == 3

Pieces ==
    { Placeholders[k] : k \in 1..Len(Placeholders) }
      \cup { OneMinute, << "$" >>, << "_", "_", "r", "a", "n", "g", "e" >>,
             << "i", "n", "t", "e", "r", "v", "a", "l" >>,
             << "$", "_", "_", "r", "a", "t", "e", "_" >>, << "x" >>,
             ExprRateRange }

Texts ==
    { Flatten(ps) : ps \in UNION { [1..n -> Pieces] : n \in 0..MaxPieces } }

InitReplace == \E t \in Texts : InitCall(t)

\* tg := replacer.Replace(target.Expr)
CallReplace == ReturnCall(Replace(callArg))

SpecReplace == InitReplace /\ [][CallReplace]_vars

\* Placeholder k occurs in text s at index i.
PlaceholderAt(s, i, k) ==
    /\ i >= 1
    /\ i + Len(Placeholders[k]) - 1 <= Len(s)
    /\ \A n \in 1..Len(Placeholders[k]) : s[i + n - 1] = Placeholders[k][n]

\* Some placeholder occurs in s at index i.
StartsPlaceholder(s, i) ==
    \E k \in 1..Len(Placeholders) : PlaceholderAt(s, i, k)

\* Index i of s lies inside a placeholder that starts before i.
InsidePlaceholder(s, i) ==
    \E j \in 1..(i - 1) : \E k \in 1..Len(Placeholders) :
        PlaceholderAt(s, j, k) /\ i <= j + Len(Placeholders[k]) - 1

\* C17: the replaced text is the original with every occurrence of
\* $__range, $__rate_interval and $interval, where it stands in the
\* original, replaced by 1m and every other character kept; no placeholder
\* is left in it, so nothing a replacement produced is matched again.
C17_PlaceholdersReplacedOnce ==
    Returned =>
        /\ callRet =
              Flatten([i \in 1..Len(callArg) |->
                         IF StartsPlaceholder(callArg, i) THEN OneMinute
                         ELSE IF InsidePlaceholder(callArg, i) THEN <<>>
                         ELSE << callArg[i] >>])
        /\ \A i \in 1..Len(callRet) : ~StartsPlaceholder(callRet, i)

C17_Witness ==
    /\ Returned
    /\ callArg = Placeholders[3] \o Placeholders[2] \o Placeholders[1]
    /\ callRet = OneMinute \o OneMinute \o OneMinute

\* C17 (expression): rate(foo[$__range]) has become rate(foo[1m]).
C17_ExpressionReached ==
    Returned /\ callArg = ExprRateRange /\ callRet = ExprRate1m

\* The expression texts of the targets of a sequence of panels, in panel
\* and target order.
TargetTexts(panels) ==
    Flatten([i \in 1..Len(panels) |->
               [k \in 1..Len(panels[i].targets) |-> panels[i].targets[k].expr]])

\* The indices of the texts PromQL cannot parse.
Malformed(texts) == { i \in 1..Len(texts) : texts[i] = ExprBad }

\* C18 (as claimed): a malformed expression in any target of any panel of
\* the document makes CreateDocumentationFromFile return the parse error.
C18_AnyMalformedTargetFatal ==
    (Returned /\ Malformed(TargetTexts(GetPanels(callArg))) # {}) =>
        callRet.err.msg = "error parsing promql expression"

\* C18 (as the code has it): a malformed expression in a target of a panel
\* whose type is not "row" is fatal to the file: the parse error is
\* returned, nothing is rendered into the output file, and no target after
\* the first malformed one is parsed. Without such a target the document is
\* rendered, every target of those panels parsed once.
C18_MalformedRenderedTargetFatal ==
    Returned =>
        LET texts == TargetTexts(NonRowPanels)
            bad == Malformed(texts)
        IN  IF bad # {}
            THEN /\ callRet.err.msg = "error parsing promql expression"
                 /\ callRet.doc = Empty
                 /\ callRet.calls \in bad
                 /\ \A i \in bad : callRet.calls <= i
            ELSE /\ IsNil(callRet.err)
                 /\ callRet.doc.kind = "doc"
                 /\ callRet.calls = Len(texts)

C18_Witness ==
    /\ Returned
    /\ callArg = QueryDash("graph", << ExprBad, ExprUp >>,
                           << ExprBad, ExprUp >>)
    /\ ~IsNil(callRet.err)
    /\ callRet.calls = 1

\* C18 (row): a dashboard whose only malformed target belongs to a panel of
\* type "row" has been rendered.
C18_RowTargetReached ==
    /\ Returned
    /\ callArg = QueryDash("row", << ExprBad >>, << ExprUp >>)
    /\ IsNil(callRet.err)
    /\ callRet.doc.kind = "doc"

\* The file of task i cannot be read: it does not exist, is a directory or
\* may not be opened.
CannotRead(i) ==
    LET path == TaskPath(tasks[i])
    IN  \/ ~\E e \in fs : e.path = path
        \/ \E e \in fs : e.path = path /\ (e.isDir \/ ~e.readable)

\* The file of task i can be read and its content is not a JSON dashboard.
NotJSON(i) ==
    /\ ~CannotRead(i)
    /\ \E e \in fs : e.path = TaskPath(tasks[i])
                       /\ e.content \in { "empty", "schema", "text" }

\* The function of task i has returned.
HasReturned(i) == tasks[i].pc \notin { "begin", "open", "render" }

\* C19: a task whose file cannot be read or is not valid JSON (an empty
\* file included) returns 'error reading dashboard file' or 'error
\* unmarshalling dashboard json' and never opens an output file, so only
\* the other tasks create or truncate output files; and when processFiles
\* has returned every other task has run to its end as well.
C19_ReadOrDecodeFailure ==
    /\ \A i \in Processing :
          (CannotRead(i) \/ NotJSON(i)) =>
              /\ tasks[i].pc \notin { "open", "render" }
              /\ tasks[i].name = <<>>
              /\ HasReturned(i) =>
                    tasks[i].ret.msg =
                        IF CannotRead(i) THEN "error reading dashboard file"
                        ELSE "error unmarshalling dashboard json"
    /\ opened \subseteq
          { OutName(TaskPath(tasks[i])) :
              i \in { j \in Processing : ~CannotRead(j) /\ ~NotJSON(j) } }
    /\ \A n \in DOMAIN out : n \notin opened => out[n] = InitialOut[n]
    /\ (Returned /\ \E i \in Processing : CannotRead(i) \/ NotJSON(i)) =>
          \A j \in TaskIds : tasks[j].pc = "done"

C19_Witness ==
    /\ Returned /\ mode = "dir"
    /\ Cardinality(Processing) = 3
    /\ \E i \in Processing : NotJSON(i) /\ TaskPath(tasks[i]) = Join(PathD, NameBJSON)
    /\ \E i \in Processing : CannotRead(i)
    /\ \E i \in ValidTasks : OutName(TaskPath(tasks[i])) \in opened
    /\ out[OutName(NameBJSON)] = Old

(***************************************************************************)
(* runner.run: the flags are parsed and validated, then the file processor *)
(* (processFiles) is called.                                               *)
(***************************************************************************)

Digits == << "0", "1", "2", "3", "4", "5", "6", "7", "8", "9" >>

\* The %d verb of fmt on a natural number, then on an integer.
RECURSIVE FormatNat(_)
FormatNat(n) ==
    IF n < 10 THEN Digits[n + 1]
    ELSE FormatNat(n \div 10) \o Digits[(n % 10) + 1]

FormatInt(n) == IF n < 0 THEN "-" \o FormatNat(-n) ELSE FormatNat(n)

\* validLogLevels
ValidLogLevels == { -4, 0, 4, 8 }

\* Fault variant of validateFlagValues: the input is tested before the log
\* level.
validateInputFirst(level, inp) ==
    IF inp = <<>>
    THEN Single(Err("input flag is required", <<>>, 0))
    ELSE IF level \notin ValidLogLevels
         THEN Single(Err("invalid log level: " \o FormatInt(level), <<>>, 0))
         ELSE NilResult

\* validateFlagValues: the error it returns, or nil.
validateFlagValues(level, inp) ==
    IF level \notin ValidLogLevels
    THEN Single(Err("invalid log level: " \o FormatInt(level), <<>>, 0))
    ELSE IF inp = <<>>
         THEN Single(Err("input flag is required", <<>>, 0))
         ELSE NilResult

\* The values of the -log-level flag.
LogLevels == ValidLogLevels \cup { -1, 3, 12 }

InitRun ==
    /\ fs = BaseFS
    /\ input \in Inputs \cup { <<>> }
    /\ outputOK = TRUE
    /\ out = InitialOut
    /\ pcMain = "run"
    /\ mode = "none"
    /\ matches = <<>>
    /\ next = 1
    /\ result = NilResult
    /\ tasks = <<>>
    /\ g = NewGroup
    /\ reads = {}
    /\ opened = {}
    /\ help \in BOOLEAN
    /\ logLevel \in LogLevels
    /\ callArg = NoCall
    /\ callRet = NoCall

\* run up to the call of r.fileProcessor(): with -help the usage is shown
\* and run returns nil; a validation error is returned; otherwise
\* processFiles starts, and what it returns is what run returns.
Run ==
    /\ pcMain = "run"
    /\ IF help
       THEN pcMain' = "done" /\ result' = NilResult
       ELSE LET v == validateFlagValues(logLevel, input)
            IN  IF ~v.isNil
                THEN pcMain' = "done" /\ result' = v
                ELSE pcMain' = "start" /\ result' = result
    /\ UNCHANGED << fs, input, outputOK, out, mode, matches, next, tasks, g,
                    reads, opened, help, logLevel, callArg, callRet >>

NextRun ==
    \/ Run
    \/ Next

SpecRun == InitRun /\ [][NextRun]_vars

\* The file processor has not been invoked: the switch of processFiles has
\* not been evaluated and nothing was read, written or started.
ProcessorNotInvoked ==
    /\ pcMain \in { "run", "done" }
    /\ mode = "none"
    /\ NothingDone

\* C20 (as claimed): with a log level other than -4, 0, 4, 8 run returns
\* 'invalid log level: <n>', also when the input is empty; otherwise with
\* an empty input it returns 'input flag is required'; the file processor
\* is not invoked.
C20_InvalidFlagsFail ==
    /\ logLevel \notin { -4, 0, 4, 8 } =>
          /\ ProcessorNotInvoked
          /\ Returned =>
                result = Single(Err("invalid log level: " \o ToString(logLevel),
                                    <<>>, 0))
    /\ (logLevel \in { -4, 0, 4, 8 } /\ input = <<>>) =>
          /\ ProcessorNotInvoked
          /\ Returned => result = Single(Err("input flag is required", <<>>, 0))

\* C20 (as the code has it): the same when -help is not given; with -help
\* run returns nil without validating the flags. In all these cases the
\* file processor is not invoked.
C20_InvalidFlagsFailUnlessHelp ==
    /\ help => ProcessorNotInvoked /\ (Returned => result.isNil)
    /\ ~help => C20_InvalidFlagsFail

C20_Witness ==
    /\ Returned
    /\ ~help
    /\ logLevel = -1
    /\ input = <<>>
    /\ result = Single(Err("invalid log level: -1", <<>>, 0))

\* C20 (input): a run with a valid log level and no input has been rejected.
C20_InputRequiredReached ==
    /\ Returned /\ ~help /\ logLevel = 8 /\ input = <<>>
    /\ result = Single(Err("input flag is required", <<>>, 0))

\* C20 (help): a run with -help and invalid flags has returned nil.
C20_HelpReached ==
    Returned /\ help /\ logLevel = 12 /\ input = <<>> /\ result.isNil

\* C21: SafeMultierrorWait on a nil group returns the error
\* 'multierror.Group is nil'; on a group without functions it is not
\* blocked (its return is enabled) and it returns nil.
C21_NilAndEmptyGroupSafe ==
    /\ (Returned /\ g.nilptr) =>
          /\ ~result.isNil
          /\ Len(result.errors) = 1
          /\ result.errors[1].msg = "multierror.Group is nil"
    /\ (pcMain = "launch" /\ tasks = <<>> /\ next > Len(matches)) => ENABLED Wait
    /\ (Returned /\ ~g.nilptr /\ tasks = <<>>) => (result.isNil /\ result.errors = <<>>)

C21_Witness ==
    /\ Returned /\ g.nilptr
    /\ result.errors # <<>>
    /\ result.errors[1].msg = "multierror.Group is nil"

\* C21 (empty group): the wait on a pointer to a group nothing was started
\* in has returned nil.
C21_EmptyGroupReached ==
    Returned /\ ~g.nilptr /\ Len(tasks) = 0 /\ g.wg = 0 /\ result = NilResult

\* The text of the error names the file task i worked on: the dashboard
\* path (a read failure) or the output file derived from it (an open
\* failure).
NamesFileOf(e, i) ==
    /\ e.path # <<>>
    /\ e.path \in { TaskPath(tasks[i]), OutName(TaskPath(tasks[i])) }

\* C22: when files of a batch failed, the aggregate error holds for each
\* failed file a message whose text can be attributed to that file.
C22_EveryFailureAttributable ==
    (Returned /\ Batch /\ tasks # <<>>) =>
        \A i \in Failed :
            \E k \in 1..Len(result.errors) : NamesFileOf(result.errors[k], i)

\* C22 (messages): a batch has returned an aggregate of two messages that
\* name no file.
C22_UnnamedFailuresReached ==
    /\ Returned /\ Batch
    /\ Len(result.errors) >= 2
    /\ \A k \in 1..Len(result.errors) : result.errors[k].path = <<>>

(***************************************************************************)
(* IsValidDirectory on its own, called on files, directories and names of  *)
(* nothing.                                                                *)
(***************************************************************************)

InitValidDir ==
    /\ fs \in FileSystems
    /\ input \in RetrieveInputs
    /\ outputOK = TRUE
    /\ out = InitialOut
    /\ pcMain = "start"
    /\ mode = "call"
    /\ matches = <<>>
    /\ next = 1
    /\ result = NilResult
    /\ tasks = <<>>
    /\ g = NewGroup
    /\ reads = {}
    /\ opened = {}
    /\ help = FALSE
    /\ logLevel = 0
    /\ callArg = input
    /\ callRet = NoCall

\* ok := utils.IsValidDirectory(dirPath)
CallIsValidDirectory == ReturnCall(IsValidDirectory(fs, callArg))

SpecValidDir == InitValidDir /\ [][CallIsValidDirectory]_vars

C23_DirectoryReached ==
    Returned /\ callArg = PathM /\ callRet = TRUE

\* C23 (missing): the function has returned false for a path that does not
\* exist.
C23_MissingReached ==
    Returned /\ callArg = PathNope /\ callRet = FALSE

(***************************************************************************)
(* pkg/templates: mdTemplate executed on a render model. A text is a       *)
(* sequence whose elements are the characters of the values and the        *)
(* literal texts of the template; the line break is the element "\n".      *)
(* Before {{- the template drops the white space that ends the text.       *)
(***************************************************************************)

HeaderLine == "| Panel Name | Panel Description | Panel Type | Metrics Used |"
SeparatorLine == "| ---------- | ----------------- | ---------- | -------- |"

\* The literal texts around a metric: a blank and a backquote before it, a
\* backquote and <br> after it (a string of this language cannot hold the
\* backquote character, which is written out here).
SpanOpen == " (backquote)"
SpanClose == "(backquote)<br>"

\* {{- range .Metrics}} (backquote){{.}}(backquote)<br> {{- end}} from
\* metric k on.
RECURSIVE ExecuteMetrics(_, _)
ExecuteMetrics(metrics, k) ==
    IF k > Len(metrics) THEN <<>>
    ELSE << SpanOpen >> \o metrics[k] \o << SpanClose >>
           \o ExecuteMetrics(metrics, k + 1)

\* {{- range .Panels}} ... {{- end}} from panel k on.
RECURSIVE ExecutePanels(_, _)
ExecutePanels(panels, k) ==
    IF k > Len(panels) THEN <<>>
    ELSE << "\n", "| " >> \o panels[k].title
           \o << " | " >> \o panels[k].description
           \o << " | " >> \o panels[k].type
           \o << " |" >> \o ExecuteMetrics(panels[k].metrics, 1)
           \o << " |" >>
           \o ExecutePanels(panels, k + 1)

\* tmpl.Execute(f, data): the text written.
Execute(data) ==
    << "# " >> \o data.title \o << "\n" >> \o data.description
      \o << "\n", "\n", HeaderLine, "\n", SeparatorLine >>
      \o ExecutePanels(data.panels, 1)

\* The most panels of a render model and the most metrics of a panel.
MaxPanels == 2
MaxMetrics == 2

\* Values of the fields of a render model: panel titles come from the
\* dashboard file as they are, the line breaks of a panel description have
\* been escaped, a type is never "row", the metrics of a panel are distinct.
PanelTitles == { << "P" >>, << "a", "\n", "b" >> }
PanelDescriptions == { <<>>, << "x", "\\", "n", "y" >> }
RenderedTypes == { << "g", "r", "a", "p", "h" >> }
MetricNames == { << "u", "p" >>, << "f", "o", "o" >> }
MetricLists ==
    { m \in UNION { [1..n -> MetricNames] : n \in 0..MaxMetrics } :
        \A i, j \in 1..Len(m) : m[i] = m[j] => i = j }
PanelRows ==
    [title : PanelTitles, description : PanelDescriptions,
     type : RenderedTypes, metrics : MetricLists]
RenderModels ==
    [title : { << "T" >> }, description : { << "D" >>, <<>> },
     panels : UNION { [1..n -> PanelRows] : n \in 0..MaxPanels }]

InitTemplate == \E data \in RenderModels : InitCall(data)

\* err = tmpl.Execute(f, data)
CallExecute == ReturnCall(Execute(callArg))

SpecTemplate == InitTemplate /\ [][CallExecute]_vars

\* The lines of a text.
RECURSIVE SplitLines(_)
SplitLines(s) ==
    IF \A i \in 1..Len(s) : s[i] # "\n" THEN << s >>
    ELSE LET i == CHOOSE k \in 1..Len(s) :
                     s[k] = "\n" /\ \A j \in 1..(k - 1) : s[j] # "\n"
         IN  << SubSeq(s, 1, i - 1) >> \o SplitLines(SubSeq(s, i + 1, Len(s)))

\* The table row of a panel: its cells, then one code span and line-break
\* mark per metric.
RowLine(p) ==
    << "| " >> \o p.title \o << " | " >> \o p.description \o << " | " >>
      \o p.type \o << " |" >>
      \o Flatten([k \in 1..Len(p.metrics) |->
                    << SpanOpen >> \o p.metrics[k] \o << SpanClose >>])
      \o << " |" >>

\* C24: the document is the title heading, the description, an empty line,
\* the two lines of the table header, and then exactly one line per panel
\* of the render model, in order, each the row of its panel with the
\* panel's metrics in order; without panels the header lines are the last.
C24_OneRowPerPanel ==
    Returned =>
        LET lines == SplitLines(callRet)
            n == Len(callArg.panels)
        IN  /\ Len(lines) = 5 + n
            /\ lines[1] = << "# " >> \o callArg.title
            /\ lines[2] = callArg.description
            /\ lines[3] = <<>>
            /\ lines[4] = << HeaderLine >>
            /\ lines[5] = << SeparatorLine >>
            /\ \A k \in 1..n : lines[5 + k] = RowLine(callArg.panels[k])

\* C24 (split row): a document has been written whose table has more lines
\* than the render model has panels.
C24_SplitRowReached ==
    /\ Returned
    /\ Len(callArg.panels) = 1
    /\ Len(SplitLines(callRet)) = 7

\* C24 (no panels): a document without panels ends with the table header.
C24_EmptyTableReached ==
    /\ Returned
    /\ callArg.panels = <<>>
    /\ callRet = << "# ", "T", "\n", "D", "\n", "\n", HeaderLine, "\n",
                    SeparatorLine >>

\* C24 (plain values): every document whose panel titles hold no line break
\* has one line per panel.
C24_PlainTitlesOneRow ==
    (Returned /\ \A k \in 1..Len(callArg.panels) :
                    \A i \in 1..Len(callArg.panels[k].title) :
                        callArg.panels[k].title[i] # "\n")
        => C24_OneRowPerPanel

(***************************************************************************)
(* processFiles from the end of its switch on, with tasks that may never   *)
(* finish: os.ReadFile, os.OpenFile and the template's writes have no      *)
(* deadline and no context, so a task that blocks in one of them (a named  *)
(* pipe without a writer, a stalled mount) stays where it is for ever.     *)
(* The main goroutine and the goroutines of the group are scheduled when   *)
(* they can run; nothing is assumed about the progress of a task's own     *)
(* function.                                                               *)
(***************************************************************************)

\* A file system with a directory d of a valid file, an empty file and a
\* file whose query does not parse.
LiveFS ==
    BaseFS \cup { File(Join(PathD, PathAJson), "round"),
                  File(Join(PathD, NameBJSON), "empty"),
                  File(Join(PathD, NameCJson), "badquery") }

\* The state after the switch of processFiles.
InitLive ==
    /\ fs = LiveFS
    /\ input \in Inputs
    /\ outputOK \in BOOLEAN
    /\ out = InitialOut
    /\ LET r == ResolveInput(fs, input)
       IN  /\ mode = r.mode
           /\ pcMain = r.pc
           /\ result = r.result
           /\ matches = r.files
           /\ tasks = IF r.pc = "single" THEN << NewTask(input) >> ELSE <<>>
    /\ next = 1
    /\ g = NewGroup
    /\ reads = {}
    /\ opened = {}
    /\ help = FALSE
    /\ logLevel = 0
    /\ callArg = NoCall
    /\ callRet = NoCall

\* A step of the goroutine g.Go started for a function that has returned.
GroupStep ==
    \E i \in 1..Len(tasks) :
        \/ TaskFinishNil(i)
        \/ TaskLock(i)
        \/ TaskAppendRead(i)
        \/ TaskAppendWrite(i)
        \/ TaskDone(i)

NextLive ==
    \/ Launch
    \/ Wait
    \/ SingleReturn
    \/ \E i \in 1..Len(tasks) : TaskBegin(i)
    \/ \E i \in 1..Len(tasks) : TaskOpen(i)
    \/ \E i \in 1..Len(tasks) : TaskRender(i)
    \/ GroupStep

SpecLive ==
    /\ InitLive
    /\ [][NextLive]_vars
    /\ WF_vars(Launch)
    /\ WF_vars(Wait)
    /\ WF_vars(SingleReturn)
    /\ WF_vars(GroupStep)

\* The function of launched task i has not returned.
Running(i) ==
    /\ i <= Len(tasks)
    /\ tasks[i].pc \in { "begin", "open", "render" }

\* C25: if the function of every launched task eventually returns then
\* processFiles eventually returns; if the function of some launched task
\* never returns then processFiles never returns, whatever the other tasks
\* have done.
C25_ReturnsIffAllTasksFinish ==
    /\ (\A i \in 1..MaxTasks : <>[]~Running(i)) => <>Returned
    /\ \A i \in 1..MaxTasks : (<>[]Running(i)) => []~Returned

\* C25: one task of a batch is still in its function, every other task is
\* done, one of them failed, and processFiles is waiting.
C25_Witness ==
    /\ Batch /\ pcMain = "launch"
    /\ Len(tasks) >= 3
    /\ Cardinality({ i \in TaskIds : Running(i) }) = 1
    /\ \A i \in TaskIds : Running(i) \/ tasks[i].pc = "done"
    /\ Failed # {}

\* C25 (all finish): a batch of three tasks has returned.
C25_ReturnedReached ==
    Returned /\ Batch /\ Len(tasks) >= 3 /\ \A i \in TaskIds : ~Running(i)

\* C25 (tasks): no batch of the specification has more than MaxTasks tasks,
\* so C25 speaks of every launched task.
C25_AllTasksCovered == Len(matches) <= MaxTasks /\ Len(tasks) <= MaxTasks

(***************************************************************************)
(* extractMetrics on its own, called on expression trees.                  *)
(***************************************************************************)

\* The most levels of nodes below the root of a generated tree.
MaxDepth == 2

\* Trees of binary expressions and calls over the selectors foo and bar.
RECURSIVE TreesOfDepth(_)
TreesOfDepth(d) ==
    IF d = 0 THEN { VS("foo"), VS("bar") }
    ELSE LET T == TreesOfDepth(d - 1)
         IN  T \cup { Node("BinaryExpr", "", << l, r >>) : l \in T, r \in T }
               \cup { Node("Call", "rate",
                           << Node("MatrixSelector", "", << t >>) >>) : t \in T }

\* sum(rate(foo[5m])) + bar
TreeSumRatePlusBar ==
    Node("BinaryExpr", "",
         << Node("AggregateExpr", "sum",
                 << Node("Call", "rate",
                         << Node("MatrixSelector", "", << VS("foo") >>) >>) >>),
            VS("bar") >>)

\* foo + 1, (bar), 1
TreeNumber == Node("NumberLiteral", "", <<>>)
TreeFooPlusOne == Node("BinaryExpr", "", << VS("foo"), TreeNumber >>)
TreeParenBar == Node("ParenExpr", "", << VS("bar") >>)

ExpressionTrees ==
    TreesOfDepth(MaxDepth)
      \cup { TreeSumRatePlusBar, TreeNumber, TreeFooPlusOne, TreeParenBar }

InitExtract == \E t \in ExpressionTrees : InitCall(t)

\* metrics := extractMetrics(p)
CallExtractMetrics == ReturnCall(extractMetrics(callArg))

SpecExtract == InitExtract /\ [][CallExtractMetrics]_vars

\* The paths (child indexes from the root) to the vector selectors of a tree.
RECURSIVE SelectorPaths(_)
SelectorPaths(node) ==
    (IF node.kind = "VectorSelector" THEN { <<>> } ELSE {})
      \cup UNION { { << k >> \o q : q \in SelectorPaths(node.kids[k]) } :
                     k \in 1..Len(node.kids) }

\* The node at the end of a path.
RECURSIVE NodeAt(_, _)
NodeAt(node, path) ==
    IF path = <<>> THEN node ELSE NodeAt(node.kids[Head(path)], Tail(path))

\* Path a is visited before path b by a depth-first, pre-order, left to
\* right walk: a is a proper prefix of b, or a turns left where they part.
RECURSIVE VisitedBefore(_, _)
VisitedBefore(a, b) ==
    IF b = <<>> THEN FALSE
    ELSE IF a = <<>> THEN TRUE
    ELSE IF Head(a) # Head(b) THEN Head(a) < Head(b)
    ELSE VisitedBefore(Tail(a), Tail(b))

C26_DuplicateReached ==
    /\ Returned
    /\ callArg = ParseExpr(ExprFooFoo).node
    /\ callRet = << "foo", "foo" >>

(***************************************************************************)
(* GetUniqueElements called on a sequence and then on what it returned.    *)
(***************************************************************************)

\* again := utils.GetUniqueElements(unique)
CallGetUniqueElementsAgain ==
    /\ pcMain = "done"
    /\ pcMain' = "twice"
    /\ callArg' = callRet
    /\ callRet' = GetUniqueElements(callRet)
    /\ UNCHANGED << fs, input, outputOK, out, mode, matches, next, result,
                    tasks, g, reads, opened, help, logLevel >>

SpecUniqueTwice ==
    InitUnique /\ [][CallGetUniqueElements \/ CallGetUniqueElementsAgain]_vars

\* C27: GetUniqueElements applied to its own result returns that result:
\* the second call returns its argument, element by element in the same
\* order.
C27_DedupIdempotent ==
    pcMain = "twice" =>
        /\ Len(callRet) = Len(callArg)
        /\ \A i \in 1..Len(callArg) : callRet[i] = callArg[i]

\* C27: the second call on the result of a sequence with duplicates.
C27_Witness ==
    /\ pcMain = "twice"
    /\ callArg = << "b", "a", "c" >>
    /\ callRet = << "b", "a", "c" >>

\* The path ends in .json, in any mix of upper and lower case.
EndsInJson(path) ==
    /\ Len(path) >= 5
    /\ path[Len(path) - 4] = "."
    /\ path[Len(path) - 3] \in { "j", "J" }
    /\ path[Len(path) - 2] \in { "s", "S" }
    /\ path[Len(path) - 1] \in { "o", "O" }
    /\ path[Len(path)] \in { "n", "N" }

\* The tasks of matches that are not .json paths.
NonJSONTasks == { i \in TaskIds : ~EndsInJson(tasks[i].arg) }

\* C28: in glob mode the tasks are the matches, one task per match in
\* order; the task of a match that does not end in .json never reads,
\* never opens an output file and returns nil, and no error of the
\* aggregate comes from it: with only such matches the batch returns nil.
C28_NonJSONMatchSkipped ==
    mode = "glob" =>
        /\ Len(tasks) <= Len(matches)
        /\ \A i \in TaskIds : tasks[i].arg = matches[i]
        /\ Returned => Len(tasks) = Len(matches)
        /\ \A i \in NonJSONTasks :
              /\ tasks[i].pc \in { "begin", "ret", "done" }
              /\ IsNil(tasks[i].ret)
              /\ tasks[i].arg \notin reads
              /\ tasks[i].name = <<>>
              /\ \A k \in 1..Len(g.err.errors) : g.err.errors[k].task # i
        /\ (Returned /\ matches # <<>>) =>
              /\ \A k \in 1..Len(result.errors) :
                    result.errors[k].task \in TaskIds \ NonJSONTasks
              /\ NonJSONTasks = TaskIds => result.isNil

\* C28: a glob batch of a valid .json file and a match that is not a .json
\* path has returned nil.
C28_Witness ==
    /\ Returned /\ mode = "glob"
    /\ NonJSONTasks # {} /\ NonJSONTasks # TaskIds
    /\ \A i \in TaskIds : tasks[i].pc = "done"
    /\ result.isNil

\* C28 (sibling fails): a glob batch with a match that is not a .json path
\* has returned the error of a .json sibling alone.
C28_SiblingFailedReached ==
    /\ Returned /\ mode = "glob"
    /\ NonJSONTasks # {}
    /\ Len(result.errors) = 1

\* No task other than i has opened the output file name n.
OnlyTask(i, n) == \A j \in TaskIds \ {i} : tasks[j].name # n

\* C29: a task whose function returned an error has not opened its output
\* file, and, unless another task opened a file of that name, the file is
\* as it was before the run: absent, or with the content it had.
C29_FailedTaskLeavesOutput ==
    \A i \in Failed :
        LET n == OutName(TaskPath(tasks[i]))
        IN  /\ tasks[i].name = <<>>
            /\ OnlyTask(i, n) =>
                  IF n \in DOMAIN InitialOut
                  THEN n \in DOMAIN out /\ out[n] = InitialOut[n]
                  ELSE n \notin DOMAIN out

\* C29 (created): a task whose query does not parse has returned an error
\* and left an empty output file that did not exist before.
C29_EmptyFileCreatedReached ==
    /\ Returned
    /\ \E i \in Failed :
          /\ tasks[i].name # <<>>
          /\ tasks[i].name \notin DOMAIN InitialOut
          /\ OnlyTask(i, tasks[i].name)
          /\ out[tasks[i].name] = Empty

\* C29 (truncated): a failed task has emptied an output file of an earlier
\* run.
C29_OldFileTruncatedReached ==
    /\ Returned
    /\ \E i \in Failed :
          /\ tasks[i].name \in DOMAIN InitialOut
          /\ OnlyTask(i, tasks[i].name)
          /\ out[tasks[i].name] = Empty

\* The output directory after the tasks from k on have run one after
\* another, in launch order, starting from the directory cur.
RECURSIVE OneByOne(_, _)
OneByOne(k, cur) ==
    IF k > Len(tasks) THEN cur
    ELSE LET path == TaskPath(tasks[k])
             n == OutName(path)
             decodes == /\ ~SkipsMatch(path)
                        /\ ReadFileOK(fs, path)
                        /\ ~Unmarshal(Entry(fs, path).content).err
         IN  IF ~decodes \/ ~outputOK THEN OneByOne(k + 1, cur)
             ELSE LET m == MarkdownData(Unmarshal(Entry(fs, path).content).dash)
                  IN  OneByOne(k + 1,
                               [x \in DOMAIN cur \cup {n} |->
                                  IF x # n THEN cur[x]
                                  ELSE IF m.err THEN Empty ELSE Doc(m.data)])

\* C30: whatever the interleaving of its tasks, a batch ends with the
\* output files, and the content of each, that the tasks give when they
\* run one after another, and its aggregate error holds the errors of the
\* same tasks.
C30_OutcomeIndependentOfSchedule ==
    (Returned /\ Batch /\ tasks # <<>>) =>
        /\ out = OneByOne(1, InitialOut)
        /\ { result.errors[k].task : k \in 1..Len(result.errors) }
             = { i \in TaskIds :
                   LET path == TaskPath(tasks[i])
                   IN  /\ ~SkipsMatch(path)
                       /\ \/ ~ReadFileOK(fs, path)
                          \/ Unmarshal(Entry(fs, path).content).err
                          \/ ~outputOK
                          \/ MarkdownData(
                               Unmarshal(Entry(fs, path).content).dash).err }

\* C30 (lost document): a batch has returned, a task that documented its
\* file returned nil, and the file it wrote is empty or holds bytes of two
\* documents.
C30_DocumentLostReached ==
    /\ Returned /\ Batch
    /\ \E i \in TaskIds :
          /\ IsNil(tasks[i].ret)
          /\ tasks[i].name # <<>>
          /\ out[tasks[i].name] \in { Empty, Mixed }

\* C30 (same errors): the failed tasks of a returned batch are those whose
\* errors the aggregate holds, in every interleaving.
C30_SameFailedFiles ==
    (Returned /\ Batch /\ tasks # <<>>) =>
        { result.errors[k].task : k \in 1..Len(result.errors) } = Failed

====
